---- MODULE Spec2Model ----
(***************************************************************************)
(* The block-validation surface of the kernel library: the C API           *)
(* (aurk_chainstate_manager_process_block, ..._process_block_header, the   *)
(* chain view, the undo reader, the validation-interface callbacks) over   *)
(* the validation engine it drives (block index, active chain, UTXO view). *)
(***************************************************************************)
EXTENDS Integers, Sequences, FiniteSets, TLC

\* Number of API calls explored in one behaviour.
MaxCalls == 6

\* Most inputs of a transaction handed to script verification.
MaxInputs == 2

\* Most blocks in the files of one import.
MaxImport == 3

\* ProcessBlock calls in a behaviour that follows every callback.
MaxSyncCalls == 4

\* Largest worker count set, and most inputs of a block whose scripts are
\* checked.
MaxWorkers == 2

MaxCheckInputs == 3

\* Most inputs of a transaction and most transactions of a block whose
\* encodings are handed to the create calls, and most bytes added after one.
MaxSerInputs == 2

MaxSerBlockTxs == 2

MaxTrailing == 2

\* The largest int.
INT_MAX == 2147483647

\* The engine spawns at most this many script check threads.
MAX_SCRIPTCHECK_THREADS == 15

\* Calls in a behaviour in which the user keeps track of the blocks reported
\* as not valid.
MaxTrackedCalls == 5
MaxHandles == 3
MaxObjects == 3
MaxCallbackSets == 2
MaxContexts == 2
MaxRefs == 2
MaxConnections == 3
MaxMessages == 3
MaxIterateCalls == 5

\* Confirmations a coinbase output needs before it may be spent.
COINBASE_MATURITY == 100

\* aurk_ValidationMode
aurk_ValidationMode_VALID == 0
aurk_ValidationMode_INVALID == 1
aurk_ValidationMode_INTERNAL_ERROR == 2

\* aurk_BlockValidationResult
aurk_BlockValidationResult_UNSET == 0
aurk_BlockValidationResult_CONSENSUS == 1
aurk_BlockValidationResult_CACHED_INVALID == 2
aurk_BlockValidationResult_INVALID_HEADER == 3
aurk_BlockValidationResult_MUTATED == 4
aurk_BlockValidationResult_MISSING_PREV == 5
aurk_BlockValidationResult_INVALID_PREV == 6
aurk_BlockValidationResult_TIME_FUTURE == 7
aurk_BlockValidationResult_HEADER_LOW_WORK == 8

\* aurk_ScriptVerifyStatus
aurk_ScriptVerifyStatus_OK == 0
aurk_ScriptVerifyStatus_ERROR_INVALID_FLAGS_COMBINATION == 1
aurk_ScriptVerifyStatus_ERROR_SPENT_OUTPUTS_REQUIRED == 2

\* aurk_ScriptVerificationFlags
aurk_ScriptVerificationFlags_NONE == 0
aurk_ScriptVerificationFlags_P2SH == 2 ^ 0
aurk_ScriptVerificationFlags_DERSIG == 2 ^ 2
aurk_ScriptVerificationFlags_NULLDUMMY == 2 ^ 4
aurk_ScriptVerificationFlags_CHECKLOCKTIMEVERIFY == 2 ^ 9
aurk_ScriptVerificationFlags_CHECKSEQUENCEVERIFY == 2 ^ 10
aurk_ScriptVerificationFlags_WITNESS == 2 ^ 11
aurk_ScriptVerificationFlags_TAPROOT == 2 ^ 17
aurk_ScriptVerificationFlags_ALL ==
    aurk_ScriptVerificationFlags_P2SH + aurk_ScriptVerificationFlags_DERSIG
    + aurk_ScriptVerificationFlags_NULLDUMMY
    + aurk_ScriptVerificationFlags_CHECKLOCKTIMEVERIFY
    + aurk_ScriptVerificationFlags_CHECKSEQUENCEVERIFY
    + aurk_ScriptVerificationFlags_WITNESS + aurk_ScriptVerificationFlags_TAPROOT

(***************************************************************************)
(* Primitive types and the blocks a caller may submit.                     *)
(***************************************************************************)
NullHash == "null"
Genesis == "G"

\* {txid, output-index}
OutPoint(txid, n) == <<txid, n>>

\* A transaction: its inputs' out-points in input order, and its outputs.
CTransaction(txid, vin, nout) == [txid |-> txid, vin |-> vin, nout |-> nout]

\* The first transaction of a block: no real inputs, one output.
Coinbase(h) == CTransaction(h, <<>>, 1)

\* Header fields (previous hash, proof of the encoded target, whether the
\* hash meets that target) and the ordered transactions.
CBlock(prev, work, pow, vtx) ==
    [hashPrevBlock |-> prev, work |-> work, powOK |-> pow, vtx |-> vtx]

\* Two branches from genesis (a1-a2 and b1-b2, a1 with as much work as b1
\* and b2 together), a block x1 on b2 that spends
\* the immature coinbase of b1 with its child x2, a header p that misses its
\* target, and two headers o, q whose previous block is unknown (q also
\* misses its target).  b1 spends two coins in one transaction; b2 spends,
\* in its second transaction, the output of its first.
Blocks ==
    [ G  |-> CBlock(NullHash, 1, TRUE,
                 << Coinbase("G"), CTransaction("t0", <<>>, 2) >>),
      a1 |-> CBlock("G", 2, TRUE,
                 << Coinbase("a1"),
                    CTransaction("a1.t", << OutPoint("t0", 0) >>, 1) >>),
      a2 |-> CBlock("a1", 1, TRUE,
                 << Coinbase("a2"),
                    CTransaction("a2.t", << OutPoint("a1.t", 0) >>, 1) >>),
      b1 |-> CBlock("G", 1, TRUE,
                 << Coinbase("b1"),
                    CTransaction("b1.t", << OutPoint("t0", 1), OutPoint("t0", 0) >>, 1) >>),
      b2 |-> CBlock("b1", 1, TRUE,
                 << Coinbase("b2"),
                    CTransaction("b2.t", << OutPoint("b1.t", 0) >>, 1),
                    CTransaction("b2.u", << OutPoint("b2.t", 0) >>, 1) >>),
      x1 |-> CBlock("b2", 2, TRUE,
                 << Coinbase("x1"),
                    CTransaction("x1.t", << OutPoint("b1", 0) >>, 1) >>),
      x2 |-> CBlock("x1", 1, TRUE, << Coinbase("x2") >>),
      p  |-> CBlock("G", 1, FALSE, << Coinbase("p") >>),
      o  |-> CBlock("zz", 1, TRUE, << Coinbase("o") >>),
      q  |-> CBlock("zz", 1, FALSE, << Coinbase("q") >> ) ]

Hashes == DOMAIN Blocks

Outputs(tx) == {OutPoint(tx.txid, n) : n \in 0..(tx.nout - 1)}

Range(f) == {f[i] : i \in DOMAIN f}

(***************************************************************************)
(* UTXO view: a set of coins, at most one per out-point.                   *)
(***************************************************************************)
Coin(op, height, cb) == [outpoint |-> op, nHeight |-> height, fCoinBase |-> cb]

HaveCoin(view, op) == \E c \in view : c.outpoint = op

AccessCoin(view, op) == CHOOSE c \in view : c.outpoint = op

\* The coins a transaction at position i of a block at `height` creates.
AddCoins(tx, i, height) == {Coin(op, height, i = 1) : op \in Outputs(tx)}

\* Whether every input of tx refers to a coin of the view that may be spent
\* at `height`.
CheckTxInputs(view, tx, height) ==
    \A k \in 1..Len(tx.vin) :
        /\ HaveCoin(view, tx.vin[k])
        /\ LET c == AccessCoin(view, tx.vin[k])
           IN  c.fCoinBase => height - c.nHeight >= COINBASE_MATURITY

\* The coins tx consumes, in input order.
SpentCoins(view, tx) == [k \in 1..Len(tx.vin) |-> AccessCoin(view, tx.vin[k])]

RECURSIVE ConnectTxs(_, _, _, _, _)
ConnectTxs(view, vtx, i, height, undo) ==
    IF i > Len(vtx) THEN [ok |-> TRUE, view |-> view, undo |-> undo]
    ELSE IF ~CheckTxInputs(view, vtx[i], height)
         THEN [ok |-> FALSE, view |-> view, undo |-> undo]
    ELSE LET spent == SpentCoins(view, vtx[i])
             next  == (view \ Range(spent)) \cup AddCoins(vtx[i], i, height)
         IN  ConnectTxs(next, vtx, i + 1, height,
                        IF i = 1 THEN undo ELSE Append(undo, spent))

\* The result r of the transactions of a block, published only when all of
\* them passed.
AllOrNothing(view, r) ==
    IF r.ok THEN r ELSE [ok |-> FALSE, view |-> view, undo |-> <<>>]

\* Faulty variant: a failed block leaves the coins of the transactions before the
\* failing one applied.
ConnectBlockPartial(view, h, height) ==
    ConnectTxs(view, Blocks[h].vtx, 1, height, <<>>)

\* Applying a block to a view: all of it, or (on failure) none of it.  The
\* undo data holds, per non-coinbase transaction, the coins its inputs spent.
ConnectBlock(view, h, height) ==
    AllOrNothing(view, ConnectTxs(view, Blocks[h].vtx, 1, height, <<>>))

RECURSIVE DisconnectTxs(_, _, _, _)
DisconnectTxs(view, vtx, undo, i) ==
    IF i = 0 THEN view
    ELSE LET kept     == {c \in view : c.outpoint \notin Outputs(vtx[i])}
             restored == IF i = 1 THEN {} ELSE Range(undo[i - 1])
         IN  DisconnectTxs(kept \cup restored, vtx, undo, i - 1)

\* Faulty variant: the block's outputs are removed, the spent coins not restored.
DisconnectBlockNoRestore(view, h, undo) ==
    {c \in view : \A i \in 1..Len(Blocks[h].vtx) : c.outpoint \notin Outputs(Blocks[h].vtx[i])}

\* Reversing a block's effect on a view with its undo data, last transaction
\* first.
DisconnectBlock(view, h, undo) ==
    DisconnectTxs(view, Blocks[h].vtx, undo, Len(Blocks[h].vtx))

(***************************************************************************)
(* Block index (block tree) and active chain.                              *)
(***************************************************************************)
\* A block tree entry.  nStatus is the validation status; haveData says the
\* block's body is stored; linked says the bodies of all its ancestors are
\* stored too; nSequenceId orders linked entries by the moment they became
\* linked; nArrival orders stored bodies by arrival.
CBlockIndex(prev, height, work, status) ==
    [pprev |-> prev, nHeight |-> height, nChainWork |-> work, nStatus |-> status,
     haveData |-> FALSE, linked |-> FALSE, nSequenceId |-> 0, nArrival |-> 0]

GetBlockProof(h) == Blocks[h].work

Tip(chain) == chain[Len(chain)]

RECURSIVE PathTo(_, _)
\* The entries from genesis to h, following parent pointers.
PathTo(idx, h) ==
    IF idx[h].pprev = NullHash THEN <<h>>
    ELSE Append(PathTo(idx, idx[h].pprev), h)

Descendants(idx, h) == {d \in DOMAIN idx : h \in Range(PathTo(idx, d))}

\* Result of a validation step: mode and reason.
BlockValidationState(mode, result) == [mode |-> mode, result |-> result]

StateValid == BlockValidationState("M_VALID", "BLOCK_RESULT_UNSET")

Invalid(result) == BlockValidationState("M_INVALID", result)

\* A validation signal on its way to the registered validation interface.
Signal(kind, h, state) == [kind |-> kind, block |-> h, state |-> state]

Emit(s, sig) == [s EXCEPT !.sigs = Append(@, sig)]

\* Inserting the entry of an accepted header; the best header moves to it
\* when it has more cumulative work.
AddToBlockIndex(s, h) ==
    LET prev  == Blocks[h].hashPrevBlock
        entry == CBlockIndex(prev, s.idx[prev].nHeight + 1,
                             s.idx[prev].nChainWork + GetBlockProof(h),
                             "HeadersValid")
    IN  [s EXCEPT !.idx = h :> entry @@ @,
                  !.best = IF entry.nChainWork > s.idx[s.best].nChainWork
                           THEN h ELSE @]

\* Header acceptance: known headers are answered from the index; a new one
\* must meet its target, name a known previous block and not build on an
\* invalid one.
AcceptBlockHeader(s, h) ==
    IF h \in DOMAIN s.idx
    THEN IF s.idx[h].nStatus = "Invalid"
         THEN [ok |-> FALSE, state |-> Invalid("BLOCK_CACHED_INVALID"), s |-> s]
         ELSE [ok |-> TRUE, state |-> StateValid, s |-> s]
    ELSE IF ~Blocks[h].powOK
    THEN [ok |-> FALSE, state |-> Invalid("BLOCK_INVALID_HEADER"), s |-> s]
    ELSE IF Blocks[h].hashPrevBlock \notin DOMAIN s.idx
    THEN [ok |-> FALSE, state |-> Invalid("BLOCK_MISSING_PREV"), s |-> s]
    ELSE IF s.idx[Blocks[h].hashPrevBlock].nStatus = "Invalid"
    THEN [ok |-> FALSE, state |-> Invalid("BLOCK_INVALID_PREV"), s |-> s]
    ELSE [ok |-> TRUE, state |-> StateValid, s |-> AddToBlockIndex(s, h)]

ProcessNewBlockHeaders(s, h) == AcceptBlockHeader(s, h)

RECURSIVE SortByArrival(_, _)
SortByArrival(idx, set) ==
    IF set = {} THEN <<>>
    ELSE LET first == CHOOSE a \in set : \A b \in set : idx[a].nArrival <= idx[b].nArrival
         IN  <<first>> \o SortByArrival(idx, set \ {first})

Unlinked(idx, h) ==
    {c \in DOMAIN idx : idx[c].pprev = h /\ idx[c].haveData /\ ~idx[c].linked}

RECURSIVE LinkQueue(_, _)
\* Linking the entries of the queue, and after each the stored children that
\* waited for it, giving each the next sequence id.
LinkQueue(s, queue) ==
    IF queue = <<>> THEN s
    ELSE LET h  == Head(queue)
             s1 == [s EXCEPT !.idx[h].linked = TRUE,
                             !.idx[h].nSequenceId = s.seq,
                             !.seq = @ + 1]
         IN  LinkQueue(s1, Tail(queue) \o SortByArrival(s1.idx, Unlinked(s1.idx, h)))

\* Recording that the body of h is stored.
ReceivedBlockTransactions(s, h) ==
    LET s1 == [s EXCEPT !.idx[h].haveData = TRUE,
                        !.idx[h].nArrival = s.arr,
                        !.arr = @ + 1]
    IN  IF s1.idx[s1.idx[h].pprev].linked THEN LinkQueue(s1, <<h>>) ELSE s1

\* The entries that may become the tip: every body up to them is stored and
\* none is invalid.
Candidates(idx) == {h \in DOMAIN idx : idx[h].linked /\ idx[h].nStatus # "Invalid"}

\* Faulty variant: the longest branch wins instead of the one with the most work.
CBlockIndexHeightComparator(idx, a, b) ==
    \/ idx[a].nHeight > idx[b].nHeight
    \/ /\ idx[a].nHeight = idx[b].nHeight
       /\ idx[a].nSequenceId < idx[b].nSequenceId

\* Faulty variant: on equal work the entry linked last wins.
CBlockIndexLastSeenComparator(idx, a, b) ==
    \/ idx[a].nChainWork > idx[b].nChainWork
    \/ /\ idx[a].nChainWork = idx[b].nChainWork
       /\ idx[a].nSequenceId > idx[b].nSequenceId

\* More cumulative work wins; on equal work the entry linked first wins.
CBlockIndexWorkComparator(idx, a, b) ==
    \/ idx[a].nChainWork > idx[b].nChainWork
    \/ /\ idx[a].nChainWork = idx[b].nChainWork
       /\ idx[a].nSequenceId < idx[b].nSequenceId

FindMostWorkChain(idx) ==
    CHOOSE h \in Candidates(idx) :
        \A o \in Candidates(idx) \ {h} : CBlockIndexWorkComparator(idx, h, o)

\* After a block was marked invalid: the best header is the valid entry
\* with the most cumulative work.
RecalculateBestHeader(s) ==
    IF s.idx[s.best].nStatus # "Invalid" THEN s
    ELSE LET valid == {h \in DOMAIN s.idx : s.idx[h].nStatus # "Invalid"}
             most  == {h \in valid : \A o \in valid : s.idx[h].nChainWork >= s.idx[o].nChainWork}
         IN  [s EXCEPT !.best = CHOOSE h \in most : \A o \in most : s.idx[h].nSequenceId <= s.idx[o].nSequenceId]

\* Faulty variant: the whole branch of the failed block is marked, its valid
\* ancestors above genesis included.
InvalidBranchFound(s, h) ==
    [s EXCEPT !.idx = [e \in DOMAIN s.idx |->
                          IF e # Genesis /\ (e \in Descendants(s.idx, h) \/ e \in Range(PathTo(s.idx, h)))
                          THEN [s.idx[e] EXCEPT !.nStatus = "Invalid"]
                          ELSE s.idx[e]]]

\* A block that failed while being connected: it and all its descendants
\* are invalid from now on.
InvalidBlockFound(s, h) ==
    RecalculateBestHeader(
        [s EXCEPT !.idx = [e \in DOMAIN s.idx |->
                              IF e \in Descendants(s.idx, h)
                              THEN [s.idx[e] EXCEPT !.nStatus = "Invalid"]
                              ELSE s.idx[e]]])

\* Removing the tip: its undo data restores the view; block_disconnected.
DisconnectTip(s) ==
    LET h == Tip(s.chain)
    IN  Emit([s EXCEPT !.coins = DisconnectBlock(s.coins, h, s.undo[h]),
                       !.chain = SubSeq(s.chain, 1, Len(s.chain) - 1)],
             Signal("BlockDisconnected", h, StateValid))

\* What ConnectTip does with the result r of ConnectBlock.
UpdateTip(s, h, r) ==
    IF ~r.ok
    THEN InvalidBlockFound(
             Emit([s EXCEPT !.coins = r.view],
                  Signal("BlockChecked", h, Invalid("BLOCK_CONSENSUS"))), h)
    ELSE Emit(Emit([s EXCEPT !.coins = r.view,
                             !.undo = h :> r.undo @@ @,
                             !.idx[h].nStatus = "FullyValid",
                             !.chain = Append(@, h)],
                   Signal("BlockChecked", h, StateValid)),
              Signal("BlockConnected", h, StateValid))

\* Connecting h on the tip: full validation against the view, block_checked
\* with the result, and on success the new view, the undo data, the longer
\* chain and block_connected.
ConnectTip(s, h) == UpdateTip(s, h, ConnectBlock(s.coins, h, s.idx[h].nHeight))

RECURSIVE DisconnectTo(_, _)
\* Disconnecting, tip first, down to the fork.
DisconnectTo(s, fork) ==
    IF Tip(s.chain) = fork THEN s ELSE DisconnectTo(DisconnectTip(s), fork)

RECURSIVE ConnectPath(_, _, _)

\* After path[i] was tried, giving s1: on to the next unless it failed.
ConnectRest(s1, path, i) ==
    IF Tip(s1.chain) = path[i] THEN ConnectPath(s1, path, i + 1) ELSE s1

\* Connecting path[i..], in order, until one fails.
ConnectPath(s, path, i) ==
    IF i > Len(path) THEN s
    ELSE ConnectRest(ConnectTip(s, path[i]), path, i)

\* The last entry the active chain and the path share.
FindFork(chain, path) ==
    LET n == CHOOSE k \in 1..Len(chain) :
                 /\ k <= Len(path) /\ chain[k] = path[k]
                 /\ (k < Len(chain) /\ k < Len(path) => chain[k + 1] # path[k + 1])
    IN  n

ActivateBestChainStep(s, most) ==
    LET path == PathTo(s.idx, most)
        n    == FindFork(s.chain, path)
    IN  ConnectPath(DisconnectTo(s, path[n]), path, n + 1)

RECURSIVE ActivateBestChain(_)
\* Until the tip is the best candidate: move the active chain towards it.
ActivateBestChain(s) ==
    LET most == FindMostWorkChain(s.idx)
    IN  IF most = Tip(s.chain) THEN s
        ELSE ActivateBestChain(ActivateBestChainStep(s, most))

\* Context-free checks of a block.
CheckBlock(h) == Blocks[h].powOK

\* What AcceptBlock does with the result a of AcceptBlockHeader.
StoreBlock(a, h) ==
    IF ~a.ok THEN [ok |-> FALSE, state |-> a.state, new_block |-> FALSE, s |-> a.s]
    ELSE IF a.s.idx[h].haveData
    THEN [ok |-> TRUE, state |-> a.state, new_block |-> FALSE, s |-> a.s]
    ELSE [ok |-> TRUE, state |-> a.state, new_block |-> TRUE,
          s |-> ReceivedBlockTransactions(
                    IF a.s.idx[h].pprev = Tip(a.s.chain)
                    THEN Emit(a.s, Signal("NewPoWValidBlock", h, StateValid))
                    ELSE a.s, h)]

\* Accepting a block: its header, then (unless the body is already stored)
\* storing the body; pow_valid_block when it builds on the tip.
AcceptBlock(s, h) == StoreBlock(AcceptBlockHeader(s, h), h)

\* What ProcessNewBlock does with the result a of the checks and storage.
ActivateAccepted(a, h) ==
    IF ~a.ok
    THEN [ok |-> FALSE, new_block |-> FALSE,
          s |-> Emit(a.s, Signal("BlockChecked", h, a.state))]
    ELSE [ok |-> TRUE, new_block |-> a.new_block, s |-> ActivateBestChain(a.s)]

\* Processing a block: checks, storage, then activation of the best chain.
\* A block rejected before storage is reported through block_checked.
CheckedAccept(s, h) ==
    IF CheckBlock(h) THEN AcceptBlock(s, h)
    ELSE [ok |-> FALSE, state |-> Invalid("BLOCK_INVALID_HEADER"),
          new_block |-> FALSE, s |-> s]

ProcessNewBlock(s, h) == ActivateAccepted(CheckedAccept(s, h), h)

(***************************************************************************)
(* State of one chainstate manager and its context.                        *)
(***************************************************************************)
VARIABLES
    mapBlockIndex,      \* block hash -> block tree entry
    vChain,             \* the active chain, genesis first
    coins,              \* the UTXO view
    blockUndo,          \* block hash -> stored undo data
    m_best_header,      \* entry with the most cumulative work known
    nBlockSequenceId,   \* next sequence id
    nArrivalSeq,        \* next arrival number of a stored body
    m_cbs,              \* the validation-interface callbacks that are set
    notes,              \* callbacks invoked by the last call, in order
    checkedInvalid,     \* blocks a block_checked callback reported as not valid
    txdata_handle,             \* the precomputed transaction data handle the user holds
    verify,             \* the last script verification request and its outcome
    m_interrupt,        \* the context's interrupt signal
    import,             \* the import in progress: files left, position, result
    sync,               \* a ProcessBlock call in progress and its callbacks
    mutex,              \* the thread that holds cs_main, or "none"
    pending,            \* the state that the holder of cs_main is writing
    thr,                \* per thread: the call it makes and how far it is
    hist,               \* the calls in the order they first took cs_main
    obs,                \* the query made by the last step and what it returned
    worker_threads_num, \* the option set for the chainstate manager
    cq,                 \* the script checks of the block that is being connected
    ser,                \* bytes handed to a create call, the object, the bytes written
    opts,               \* the chainstate manager options and the last call that set them
    hs,                 \* the wrapper's Handle objects and the C objects behind them
    life,               \* context options, contexts, chainstate managers: who owns what
    logging,            \* the logger, its buffer and the logging connections
    iter,               \* an iteration over the entries of the active chain
    last,               \* the last call and what it returned
    ncalls              \* calls made so far

\* What the chainstate manager calls read and write, and the rest.
chainVars == <<mapBlockIndex, vChain, coins, blockUndo, m_best_header,
               nBlockSequenceId, nArrivalSeq, m_cbs, notes, last, ncalls>>

scriptVars == <<txdata_handle, verify>>

importVars == <<m_interrupt, import>>

syncVars == <<sync>>

\* What no chainstate manager call touches, and what script verification
\* and import leave alone.
threadVars == <<mutex, pending, thr, hist, obs>>

checkVars == <<worker_threads_num, cq>>

serialVars == <<ser>>

\* Options, object lifetimes, logging and iteration.
otherVars == <<opts, hs, life, logging, iter>>

auxVars == <<scriptVars, importVars, syncVars, threadVars, checkVars, serialVars,
             otherVars>>

exceptScript ==
    <<chainVars, checkedInvalid, importVars, syncVars, threadVars, checkVars, serialVars, otherVars>>

exceptImport ==
    <<checkedInvalid, scriptVars, syncVars, threadVars, checkVars, serialVars, otherVars>>

exceptSync ==
    <<checkedInvalid, scriptVars, importVars, threadVars, checkVars, serialVars, otherVars>>

exceptThreads ==
    <<checkedInvalid, scriptVars, importVars, syncVars, checkVars, serialVars, otherVars>>

exceptCheck ==
    <<chainVars, checkedInvalid, scriptVars, importVars, syncVars, threadVars, serialVars, otherVars>>

exceptSerial == <<chainVars, checkedInvalid, scriptVars, importVars, syncVars,
                 threadVars, checkVars, otherVars>>

\* Everything but the variables of otherVars.
exceptOther == <<chainVars, checkedInvalid, scriptVars, importVars, syncVars,
                threadVars, checkVars, serialVars>>

vars == <<chainVars, checkedInvalid, auxVars>>

ValidationInterfaceCallbacks ==
    {"block_checked", "pow_valid_block", "block_connected", "block_disconnected"}

\* The engine's state as the operators above take it.
St == [idx |-> mapBlockIndex, chain |-> vChain, coins |-> coins,
       undo |-> blockUndo, best |-> m_best_header, seq |-> nBlockSequenceId,
       arr |-> nArrivalSeq, sigs |-> <<>>]

(***************************************************************************)
(* The C API.                                                              *)
(***************************************************************************)
\* Faulty variant: the tests for valid and invalid exchanged.
aurk_block_validation_state_get_validation_mode_swapped(state) ==
    IF state.mode = "M_VALID" THEN aurk_ValidationMode_INVALID
    ELSE IF state.mode = "M_INVALID" THEN aurk_ValidationMode_VALID
    ELSE aurk_ValidationMode_INTERNAL_ERROR

aurk_block_validation_state_get_validation_mode(state) ==
    IF state.mode = "M_VALID" THEN aurk_ValidationMode_VALID
    ELSE IF state.mode = "M_INVALID" THEN aurk_ValidationMode_INVALID
    ELSE aurk_ValidationMode_INTERNAL_ERROR

\* The result switch with the INVALID_HEADER case returning the neighbouring
\* enumerator.
aurk_block_validation_state_get_block_validation_result_header_as_consensus(state) ==
    CASE state.result = "BLOCK_RESULT_UNSET" -> aurk_BlockValidationResult_UNSET
      [] state.result = "BLOCK_CONSENSUS" -> aurk_BlockValidationResult_CONSENSUS
      [] state.result = "BLOCK_CACHED_INVALID" -> aurk_BlockValidationResult_CACHED_INVALID
      [] state.result = "BLOCK_INVALID_HEADER" -> aurk_BlockValidationResult_CONSENSUS
      [] state.result = "BLOCK_MUTATED" -> aurk_BlockValidationResult_MUTATED
      [] state.result = "BLOCK_MISSING_PREV" -> aurk_BlockValidationResult_MISSING_PREV
      [] state.result = "BLOCK_INVALID_PREV" -> aurk_BlockValidationResult_INVALID_PREV
      [] state.result = "BLOCK_TIME_FUTURE" -> aurk_BlockValidationResult_TIME_FUTURE
      [] state.result = "BLOCK_HEADER_LOW_WORK" -> aurk_BlockValidationResult_HEADER_LOW_WORK

\* The result switch with the MISSING_PREV and INVALID_PREV cases exchanged.
aurk_block_validation_state_get_block_validation_result_prev_swapped(state) ==
    CASE state.result = "BLOCK_RESULT_UNSET" -> aurk_BlockValidationResult_UNSET
      [] state.result = "BLOCK_CONSENSUS" -> aurk_BlockValidationResult_CONSENSUS
      [] state.result = "BLOCK_CACHED_INVALID" -> aurk_BlockValidationResult_CACHED_INVALID
      [] state.result = "BLOCK_INVALID_HEADER" -> aurk_BlockValidationResult_INVALID_HEADER
      [] state.result = "BLOCK_MUTATED" -> aurk_BlockValidationResult_MUTATED
      [] state.result = "BLOCK_MISSING_PREV" -> aurk_BlockValidationResult_INVALID_PREV
      [] state.result = "BLOCK_INVALID_PREV" -> aurk_BlockValidationResult_MISSING_PREV
      [] state.result = "BLOCK_TIME_FUTURE" -> aurk_BlockValidationResult_TIME_FUTURE
      [] state.result = "BLOCK_HEADER_LOW_WORK" -> aurk_BlockValidationResult_HEADER_LOW_WORK

aurk_block_validation_state_get_block_validation_result(state) ==
    CASE state.result = "BLOCK_RESULT_UNSET" -> aurk_BlockValidationResult_UNSET
      [] state.result = "BLOCK_CONSENSUS" -> aurk_BlockValidationResult_CONSENSUS
      [] state.result = "BLOCK_CACHED_INVALID" -> aurk_BlockValidationResult_CACHED_INVALID
      [] state.result = "BLOCK_INVALID_HEADER" -> aurk_BlockValidationResult_INVALID_HEADER
      [] state.result = "BLOCK_MUTATED" -> aurk_BlockValidationResult_MUTATED
      [] state.result = "BLOCK_MISSING_PREV" -> aurk_BlockValidationResult_MISSING_PREV
      [] state.result = "BLOCK_INVALID_PREV" -> aurk_BlockValidationResult_INVALID_PREV
      [] state.result = "BLOCK_TIME_FUTURE" -> aurk_BlockValidationResult_TIME_FUTURE
      [] state.result = "BLOCK_HEADER_LOW_WORK" -> aurk_BlockValidationResult_HEADER_LOW_WORK

\* One invocation of a user callback.
Callback(cb, h, mode, result) == [cb |-> cb, block |-> h, mode |-> mode, result |-> result]

\* KernelValidationInterface: each signal reaches the user only when the
\* matching callback is set.
BlockChecked(cbs, sig) ==
    IF "block_checked" \in cbs
    THEN << Callback("block_checked", sig.block,
                     aurk_block_validation_state_get_validation_mode(sig.state),
                     aurk_block_validation_state_get_block_validation_result(sig.state)) >>
    ELSE <<>>

NewPoWValidBlock(cbs, sig) ==
    IF "pow_valid_block" \in cbs
    THEN << Callback("pow_valid_block", sig.block, -1, -1) >> ELSE <<>>

\* BlockConnected forwarding to the block_disconnected callback.
BlockConnectedAsDisconnected(cbs, sig) ==
    IF "block_disconnected" \in cbs
    THEN << Callback("block_disconnected", sig.block, -1, -1) >> ELSE <<>>

BlockConnected(cbs, sig) ==
    IF "block_connected" \in cbs
    THEN << Callback("block_connected", sig.block, -1, -1) >> ELSE <<>>

BlockDisconnected(cbs, sig) ==
    IF "block_disconnected" \in cbs
    THEN << Callback("block_disconnected", sig.block, -1, -1) >> ELSE <<>>

RECURSIVE DeliverLastFirst(_, _)
\* Faulty variant: a task runner that runs the newest task first.
DeliverLastFirst(cbs, sigs) ==
    IF sigs = <<>> THEN <<>>
    ELSE LET sig == sigs[Len(sigs)]
             one == CASE sig.kind = "BlockChecked" -> BlockChecked(cbs, sig)
                      [] sig.kind = "NewPoWValidBlock" -> NewPoWValidBlock(cbs, sig)
                      [] sig.kind = "BlockConnected" -> BlockConnected(cbs, sig)
                      [] sig.kind = "BlockDisconnected" -> BlockDisconnected(cbs, sig)
         IN  one \o DeliverLastFirst(cbs, SubSeq(sigs, 1, Len(sigs) - 1))

RECURSIVE Deliver(_, _)
\* The task runner is immediate: signals are delivered in the order raised.
Deliver(cbs, sigs) ==
    IF sigs = <<>> THEN <<>>
    ELSE LET sig == Head(sigs)
             one == CASE sig.kind = "BlockChecked" -> BlockChecked(cbs, sig)
                      [] sig.kind = "NewPoWValidBlock" -> NewPoWValidBlock(cbs, sig)
                      [] sig.kind = "BlockConnected" -> BlockConnected(cbs, sig)
                      [] sig.kind = "BlockDisconnected" -> BlockDisconnected(cbs, sig)
         IN  one \o Deliver(cbs, Tail(sigs))

\* process_block reporting the result of the call as new_block.
aurk_chainstate_manager_process_block_result_as_new(s, h) ==
    LET r == ProcessNewBlock(s, h)
    IN  [ret |-> IF r.ok THEN 0 ELSE -1,
         new_block |-> IF r.ok THEN 1 ELSE 0,
         s |-> r.s]

\* What process_block hands back for the result r of ProcessNewBlock: the
\* return code, the value written to new_block, and the state.
ProcessBlockReturn(r) ==
    [ret |-> IF r.ok THEN 0 ELSE -1,
     new_block |-> IF r.new_block THEN 1 ELSE 0,
     s |-> r.s]

aurk_chainstate_manager_process_block(s, h) == ProcessBlockReturn(ProcessNewBlock(s, h))

\* What process_block_header hands back for the result r of
\* ProcessNewBlockHeaders: the return code, the validation state, the state.
ProcessBlockHeaderReturn(r) ==
    [ret |-> IF r.ok THEN 0 ELSE -1, state |-> r.state, s |-> r.s]

aurk_chainstate_manager_process_block_header(s, h) ==
    ProcessBlockHeaderReturn(ProcessNewBlockHeaders(s, h))

aurk_chainstate_manager_get_active_chain == vChain

\* The height taken for the number of entries.
aurk_chain_get_height_as_count(chain) == Len(chain)

aurk_chain_get_height(chain) == Len(chain) - 1

\* The entry looked up one position too low.
aurk_chain_get_by_height_from_one(chain, height) ==
    IF height < 0 \/ height >= Len(chain) THEN NullHash
    ELSE IF height = 0 THEN chain[1] ELSE chain[height]

\* NullHash stands for the null pointer.
aurk_chain_get_by_height(chain, height) ==
    IF height < 0 \/ height >= Len(chain) THEN NullHash ELSE chain[height + 1]

aurk_chain_contains(chain, idx, h) ==
    IF aurk_chain_get_by_height(chain, idx[h].nHeight) = h THEN 1 ELSE 0

\* GetByHeight reading one entry too far.
ChainView_GetByHeight_next(chain, height) ==
    IF aurk_chain_get_by_height(chain, height + 1) = NullHash THEN "throws"
    ELSE aurk_chain_get_by_height(chain, height + 1)

\* ChainView::CountEntries and ChainView::GetByHeight of the wrapper; the
\* latter throws where the interface returns null.
ChainView_CountEntries(chain) == aurk_chain_get_height(chain) + 1

ChainView_GetByHeight(chain, height) ==
    IF aurk_chain_get_by_height(chain, height) = NullHash THEN "throws"
    ELSE aurk_chain_get_by_height(chain, height)

aurk_chainstate_manager_get_best_entry == m_best_header

aurk_chainstate_manager_get_block_tree_entry_by_hash(idx, h) ==
    IF h \in DOMAIN idx THEN h ELSE NullHash

\* The previous entry reported as missing one block too early.
aurk_block_tree_entry_get_previous_below_two(idx, h) ==
    IF idx[h].nHeight <= 1 THEN NullHash ELSE idx[h].pprev

\* NullHash (the null pointer) when the entry has no pprev.
aurk_block_tree_entry_get_previous(idx, h) == idx[h].pprev

\* The genesis test of aurk_block_spent_outputs_read off by one.
aurk_block_spent_outputs_read_below_two(idx, undo, h) ==
    IF idx[h].nHeight <= 1 THEN [ok |-> TRUE, vtxundo |-> <<>>]
    ELSE IF h \notin DOMAIN undo THEN [ok |-> FALSE, vtxundo |-> <<>>]
    ELSE [ok |-> TRUE, vtxundo |-> undo[h]]

\* The undo data of an entry: empty for genesis, else what is stored; ok is
\* FALSE for the null result of a failed read.
aurk_block_spent_outputs_read(idx, undo, h) ==
    IF idx[h].nHeight < 1 THEN [ok |-> TRUE, vtxundo |-> <<>>]
    ELSE IF h \notin DOMAIN undo THEN [ok |-> FALSE, vtxundo |-> <<>>]
    ELSE [ok |-> TRUE, vtxundo |-> undo[h]]

(***************************************************************************)
(* Script verification.                                                    *)
(***************************************************************************)
\* The bit positions of an unsigned flags word that is set, and the C tests
\* `a & b` and `~a & b` as truth values.
FlagBits == 0..30

Bits(n) == {i \in FlagBits : (n \div (2 ^ i)) % 2 = 1}

And(a, b) == Bits(a) \cap Bits(b) # {}

NotAnd(a, b) == Bits(b) \ Bits(a) # {}

\* The internal flags have the bits of the interface flags; CLEANSTACK is
\* internal only.
SCRIPT_VERIFY_P2SH == aurk_ScriptVerificationFlags_P2SH

SCRIPT_VERIFY_WITNESS == aurk_ScriptVerificationFlags_WITNESS

SCRIPT_VERIFY_CLEANSTACK == 2 ^ 8

\* Faulty variant: TAPROOT without WITNESS is refused as well.
is_valid_flag_combination_taproot_needs_witness(flags) ==
    IF And(flags, SCRIPT_VERIFY_CLEANSTACK)
       /\ NotAnd(flags, SCRIPT_VERIFY_P2SH + SCRIPT_VERIFY_WITNESS) THEN FALSE
    ELSE IF And(flags, SCRIPT_VERIFY_WITNESS) /\ NotAnd(flags, SCRIPT_VERIFY_P2SH)
         THEN FALSE
    ELSE IF And(flags, aurk_ScriptVerificationFlags_TAPROOT)
            /\ NotAnd(flags, SCRIPT_VERIFY_WITNESS) THEN FALSE
    ELSE TRUE

\* Faulty variant: only the CLEANSTACK rule is tested.
is_valid_flag_combination_cleanstack_only(flags) ==
    IF And(flags, SCRIPT_VERIFY_CLEANSTACK)
       /\ NotAnd(flags, SCRIPT_VERIFY_P2SH + SCRIPT_VERIFY_WITNESS) THEN FALSE
    ELSE TRUE

is_valid_flag_combination(flags) ==
    IF And(flags, SCRIPT_VERIFY_CLEANSTACK)
       /\ NotAnd(flags, SCRIPT_VERIFY_P2SH + SCRIPT_VERIFY_WITNESS) THEN FALSE
    ELSE IF And(flags, SCRIPT_VERIFY_WITNESS) /\ NotAnd(flags, SCRIPT_VERIFY_P2SH)
         THEN FALSE
    ELSE TRUE

\* A transaction as script verification sees it: per input, whether its
\* scripts verify against the script pubkey that is being spent.
ScriptTransactions == {<<TRUE>>, <<TRUE, FALSE>>}

\* PrecomputedTransactionData::Init keeps the spent outputs it is given.
PrecomputedInit(tx, spent_outputs) ==
    [tx |-> tx, m_spent_outputs |-> spent_outputs]

\* PrecomputedTransactionData(tx): no spent outputs.
PrecomputedTransactionData(tx) == PrecomputedInit(tx, <<>>)

NullTxData == [tx |-> <<>>, m_spent_outputs |-> <<"null">>]

AbortedTxData == [tx |-> <<>>, m_spent_outputs |-> <<"abort">>]

\* The handle that aurk_precomputed_transaction_data_create returns; the
\* assert on the number of spent outputs ends the process.
aurk_precomputed_transaction_data_create(tx_to, spent_outputs_null, spent_outputs_len) ==
    IF ~spent_outputs_null /\ spent_outputs_len > 0
    THEN IF spent_outputs_len = Len(tx_to)
         THEN PrecomputedInit(tx_to, [i \in 1..spent_outputs_len |-> "out"])
         ELSE AbortedTxData
    ELSE PrecomputedInit(tx_to, <<>>)

\* What a call of aurk_script_pubkey_verify did: whether an assert ended
\* the process, the value returned, the value left in *status (StatusUnset
\* when nothing was written), and the steps taken on the request.
StatusUnset == -1

VerifyOutcome(aborted, ret, status, effects) ==
    [aborted |-> aborted, ret |-> ret, status |-> status, effects |-> effects]

WriteStatus(has_status, value) == IF has_status THEN value ELSE StatusUnset

\* The script interpreter on one input.
VerifyScript(tx, input_index) == tx[input_index + 1]

\* Faulty variant: the spent outputs are asked for under WITNESS.
SpentOutputsMissing_witness(flags, txdata) ==
    And(flags, aurk_ScriptVerificationFlags_WITNESS) /\ txdata.m_spent_outputs = <<>>

SpentOutputsMissing(flags, txdata) ==
    And(flags, aurk_ScriptVerificationFlags_TAPROOT) /\ txdata.m_spent_outputs = <<>>

\* Lines 795-803, with the precomputed data settled.
VerifyWithData(tx, txdata, input_index, flags, has_status, effects) ==
    IF SpentOutputsMissing(flags, txdata)
    THEN VerifyOutcome(FALSE, 0,
             WriteStatus(has_status, aurk_ScriptVerifyStatus_ERROR_SPENT_OUTPUTS_REQUIRED),
             effects)
    ELSE VerifyOutcome(FALSE, IF VerifyScript(tx, input_index) THEN 1 ELSE 0,
             WriteStatus(has_status, aurk_ScriptVerifyStatus_OK),
             effects \o <<"tx_input", "VerifyScript">>)

\* Faulty variant: an invalid flag combination is reported with status OK.
aurk_script_pubkey_verify_invalid_as_ok(tx_to, precomputed_txdata, input_index, flags, has_status) ==
    IF NotAnd(aurk_ScriptVerificationFlags_ALL, flags)
    THEN VerifyOutcome(TRUE, -1, StatusUnset, <<>>)
    ELSE IF ~is_valid_flag_combination(flags)
    THEN VerifyOutcome(FALSE, 0,
             WriteStatus(has_status, aurk_ScriptVerifyStatus_OK), <<>>)
    ELSE IF ~(input_index < Len(tx_to))
    THEN VerifyOutcome(TRUE, -1, StatusUnset, <<"tx">>)
    ELSE IF precomputed_txdata # NullTxData
    THEN VerifyWithData(tx_to, precomputed_txdata, input_index, flags, has_status,
                        <<"tx">>)
    ELSE VerifyWithData(tx_to, PrecomputedTransactionData(tx_to), input_index, flags,
                        has_status, <<"tx", "precomputed">>)

aurk_script_pubkey_verify(tx_to, precomputed_txdata, input_index, flags, has_status) ==
    IF NotAnd(aurk_ScriptVerificationFlags_ALL, flags)
    THEN VerifyOutcome(TRUE, -1, StatusUnset, <<>>)
    ELSE IF ~is_valid_flag_combination(flags)
    THEN VerifyOutcome(FALSE, 0,
             WriteStatus(has_status, aurk_ScriptVerifyStatus_ERROR_INVALID_FLAGS_COMBINATION),
             <<>>)
    ELSE IF ~(input_index < Len(tx_to))
    THEN VerifyOutcome(TRUE, -1, StatusUnset, <<"tx">>)
    ELSE IF precomputed_txdata # NullTxData
    THEN VerifyWithData(tx_to, precomputed_txdata, input_index, flags, has_status,
                        <<"tx">>)
    ELSE VerifyWithData(tx_to, PrecomputedTransactionData(tx_to), input_index, flags,
                        has_status, <<"tx", "precomputed">>)

\* ScriptPubkeyApi::Verify of the C++ wrapper: always passes a status.
ScriptPubkeyApi_Verify(tx_to, precomputed_txdata, input_index, flags) ==
    aurk_script_pubkey_verify(tx_to, precomputed_txdata, input_index, flags, TRUE)

(***************************************************************************)
(* Delivery of the validation signals.                                     *)
(***************************************************************************)
\* Faulty variant: the signals get a task runner with a thread of its own.
ContextTaskRunner_serial == "serial"

\* Context::Context gives the validation signals an immediate task runner.
ContextTaskRunner == "immediate"

\* An immediate task runner runs a task inside insert(): the thread that
\* raised the signal goes on when the callback has returned.
RaiserWaits(runner) == runner = "immediate"

\* The engine may go on (raise its next signal, return from the call) when
\* it does not have to wait for a callback.
EngineMayProceed(running) == RaiserWaits(ContextTaskRunner) => running = <<>>

(***************************************************************************)
(* The lock around the block index and the active chain.                   *)
(***************************************************************************)
\* Faulty variant: a query that reads without taking cs_main.
QueryLock_none(m) == TRUE

\* LOCK(::cs_main) / WITH_LOCK(GetMutex(), ...) of the queries: the read
\* happens when no thread is inside a mutation.
QueryLock(m) == m = "none"

\* What memory holds while a mutation is being written: the block index
\* already has its new content, the rest not yet.
Torn(old, new) == [old EXCEPT !.idx = new.idx]

\* The queries of the API on a state of the block index and active chain.
Query(q, arg, mem) ==
    CASE q = "height" -> aurk_chain_get_height(mem.chain)
      [] q = "by_height" -> aurk_chain_get_by_height(mem.chain, arg)
      [] q = "contains" -> aurk_chain_contains(mem.chain, mem.idx, arg)
      [] q = "by_hash" -> aurk_chainstate_manager_get_block_tree_entry_by_hash(mem.idx, arg)
      [] q = "best" -> mem.best

\* The first locked section of a call: the checks and the storage of a
\* block (a block that fails them is reported through block_checked), or
\* the acceptance of a header; activate tells whether the call goes on to
\* move the tip.
AcceptSection(op, s, h) ==
    IF op = "process_block"
    THEN [activate |-> CheckedAccept(s, h).ok,
          s |-> IF CheckedAccept(s, h).ok THEN CheckedAccept(s, h).s
                ELSE ActivateAccepted(CheckedAccept(s, h), h).s]
    ELSE [activate |-> FALSE, s |-> ProcessNewBlockHeaders(s, h).s]

(***************************************************************************)
(* Script checks of a block on the worker threads.                         *)
(***************************************************************************)
\* aurk_chainstate_manager_options_set_worker_threads_num stores the value.
aurk_chainstate_manager_options_set_worker_threads_num(worker_threads) == worker_threads

\* Faulty variant: only negative values are raised to 0.
WorkerThreads_no_upper_limit(n) == IF n < 0 THEN 0 ELSE n

\* The worker threads that are spawned for a stored value.
WorkerThreads(n) == IF n < 0 THEN 0 ELSE IF n > MAX_SCRIPTCHECK_THREADS
                                         THEN MAX_SCRIPTCHECK_THREADS ELSE n

\* The threads that take checks: the thread that connects the block (0)
\* and the workers.
Checkers(workers) == 0..workers

\* Faulty variant: the verdict is read as soon as no check is left to take.
ChecksComplete_not_waiting(q) == q.todo = {}

\* The connecting thread has the verdict when every check was taken and
\* every thread has finished the check it took.
ChecksComplete(q) == q.todo = {} /\ q.running = {}

\* The verdict of the checks made one after the other.
SequentialVerdict(inputs) == \A i \in 1..Len(inputs) : inputs[i]

(***************************************************************************)
(* Serialization of transactions and blocks.                               *)
(***************************************************************************)
\* A read from a stream: whether it succeeded, the value, the bytes left.
StreamFailure == [ok |-> FALSE, val |-> <<>>, rest |-> <<>>]

StreamValue(val, rest) == [ok |-> TRUE, val |-> val, rest |-> rest]

\* A read that goes on only when the read before it succeeded.
AndThen(r, F(_)) == IF r.ok THEN F(r) ELSE StreamFailure

\* DataStream::read: the next n bytes, an exception when fewer are left.
DataStream_read(s, n) ==
    IF Len(s) < n THEN StreamFailure
    ELSE StreamValue(SubSeq(s, 1, n), SubSeq(s, n + 1, Len(s)))

\* Little-endian value of a byte string, and the w bytes of a value.
RECURSIVE ReadLE(_)
ReadLE(b) == IF b = <<>> THEN 0 ELSE b[1] + 256 * ReadLE(Tail(b))

RECURSIVE WriteLE(_, _)
WriteLE(n, w) == IF w = 0 THEN <<>> ELSE <<n % 256>> \o WriteLE(n \div 256, w - 1)

\* No vector or script is longer than this.
MAX_SIZE == 33554432

\* ReadCompactSize: one byte below 253, else a marker and 2, 4 or 8 bytes.
\* An exception unless the size is in its shortest form and at most MAX_SIZE
\* (4 bytes with the last above 2 are more; a size in 8 bytes is either not
\* in its shortest form or above MAX_SIZE).
ReadCompactSize(s) ==
    IF s = <<>> THEN StreamFailure
    ELSE IF s[1] < 253 THEN StreamValue(s[1], Tail(s))
    ELSE IF s[1] = 253
         THEN AndThen(DataStream_read(Tail(s), 2), LAMBDA r :
                  IF ReadLE(r.val) < 253 THEN StreamFailure
                  ELSE StreamValue(ReadLE(r.val), r.rest))
    ELSE IF s[1] = 254
         THEN AndThen(DataStream_read(Tail(s), 4), LAMBDA r :
                  IF r.val[4] > 2 THEN StreamFailure
                  ELSE IF ReadLE(r.val) < 65536 \/ ReadLE(r.val) > MAX_SIZE
                       THEN StreamFailure
                  ELSE StreamValue(ReadLE(r.val), r.rest))
    ELSE StreamFailure

\* WriteCompactSize: the shortest form.
WriteCompactSize(n) ==
    IF n < 253 THEN <<n>>
    ELSE IF n < 65536 THEN <<253>> \o WriteLE(n, 2)
    ELSE <<254>> \o WriteLE(n, 4)

\* A byte vector (a script, an item of a witness stack): size, then bytes.
ReadBytes(s) == AndThen(ReadCompactSize(s), LAMBDA n : DataStream_read(n.rest, n.val))

WriteBytes(b) == WriteCompactSize(Len(b)) \o b

\* A vector of elements of one type: the number of elements, then the
\* elements one after the other.
RECURSIVE ReadElement(_, _)
RECURSIVE ReadElements(_, _, _, _)
ReadElements(type, s, n, acc) ==
    IF n = 0 THEN StreamValue(acc, s)
    ELSE AndThen(ReadElement(type, s), LAMBDA r :
             ReadElements(type, r.rest, n - 1, Append(acc, r.val)))

ReadVector(type, s) ==
    AndThen(ReadCompactSize(s), LAMBDA n : ReadElements(type, n.rest, n.val, <<>>))

RECURSIVE WriteElement(_, _)
RECURSIVE Concat(_)
Concat(ss) == IF ss = <<>> THEN <<>> ELSE Head(ss) \o Concat(Tail(ss))

WriteVector(type, v) ==
    WriteCompactSize(Len(v)) \o Concat([k \in 1..Len(v) |-> WriteElement(type, v[k])])

\* The witness stacks of the inputs from position k on.
RECURSIVE ReadWitnesses(_, _, _)
ReadWitnesses(s, vin, k) ==
    IF k > Len(vin) THEN StreamValue(vin, s)
    ELSE AndThen(ReadVector("item", s), LAMBDA r :
             ReadWitnesses(r.rest, [vin EXCEPT ![k].scriptWitness = r.val], k + 1))

\* CTransaction::HasWitness: some input carries a witness.
HasWitness(vin) == \E k \in 1..Len(vin) : vin[k].scriptWitness # <<>>

\* The end of a transaction: the lock time, 4 bytes.
ReadLockTime(version, vin, vout, s) ==
    AndThen(DataStream_read(s, 4), LAMBDA l :
        StreamValue([version |-> version, vin |-> vin, vout |-> vout,
                     nLockTime |-> l.val], l.rest))

\* The extended format after its marker: flags, inputs, outputs, and the
\* witness when flag 1 is set.  A witness that no input carries and any other
\* flag are exceptions; with the flags 0 there are no inputs and no outputs.
ReadExtended(version, s) ==
    AndThen(DataStream_read(s, 1), LAMBDA f :
        IF f.val[1] = 0 THEN ReadLockTime(version, <<>>, <<>>, f.rest)
        ELSE AndThen(ReadVector("CTxIn", f.rest), LAMBDA i :
             AndThen(ReadVector("CTxOut", i.rest), LAMBDA o :
                 IF f.val[1] # 1 THEN StreamFailure
                 ELSE AndThen(ReadWitnesses(o.rest, i.val, 1), LAMBDA w :
                          IF ~HasWitness(w.val) THEN StreamFailure
                          ELSE ReadLockTime(version, w.val, o.val, w.rest)))))

\* UnserializeTransaction with TX_WITH_WITNESS: version (4 bytes), inputs (an
\* empty list of inputs is the marker of the extended format), outputs, lock
\* time.
UnserializeTransaction(s) ==
    AndThen(DataStream_read(s, 4), LAMBDA v :
    AndThen(ReadVector("CTxIn", v.rest), LAMBDA i :
        IF i.val = <<>> THEN ReadExtended(v.val, i.rest)
        ELSE AndThen(ReadVector("CTxOut", i.rest), LAMBDA o :
                 ReadLockTime(v.val, i.val, o.val, o.rest))))

\* SerializeTransaction: the extended format exactly when the witness is
\* wanted and an input carries one.
SerializeTransaction(tx, allow_witness) ==
    tx.version
    \o (IF allow_witness /\ HasWitness(tx.vin) THEN <<0, 1>> ELSE <<>>)
    \o WriteVector("CTxIn", tx.vin) \o WriteVector("CTxOut", tx.vout)
    \o (IF allow_witness /\ HasWitness(tx.vin)
        THEN Concat([k \in 1..Len(tx.vin) |->
                         WriteVector("item", tx.vin[k].scriptWitness)])
        ELSE <<>>)
    \o tx.nLockTime

\* One element.  CTxIn: out-point (32-byte hash, 4-byte index), scriptSig,
\* nSequence (4 bytes); its witness is read later.  CTxOut: nValue (8 bytes),
\* scriptPubKey.
ReadElement(type, s) ==
    CASE type = "CTxIn" ->
             AndThen(DataStream_read(s, 36), LAMBDA p :
             AndThen(ReadBytes(p.rest), LAMBDA sc :
             AndThen(DataStream_read(sc.rest, 4), LAMBDA q :
                 StreamValue([prevout |-> p.val, scriptSig |-> sc.val,
                              nSequence |-> q.val, scriptWitness |-> <<>>], q.rest))))
      [] type = "CTxOut" ->
             AndThen(DataStream_read(s, 8), LAMBDA v :
             AndThen(ReadBytes(v.rest), LAMBDA sc :
                 StreamValue([nValue |-> v.val, scriptPubKey |-> sc.val], sc.rest)))
      [] type = "item" -> ReadBytes(s)
      [] type = "CTransaction" -> UnserializeTransaction(s)

WriteElement(type, x) ==
    CASE type = "CTxIn" -> x.prevout \o WriteBytes(x.scriptSig) \o x.nSequence
      [] type = "CTxOut" -> x.nValue \o WriteBytes(x.scriptPubKey)
      [] type = "item" -> WriteBytes(x)
      [] type = "CTransaction" -> SerializeTransaction(x, TRUE)

\* CBlock: the header of 80 bytes, then the transactions.
UnserializeBlock(s) ==
    AndThen(DataStream_read(s, 80), LAMBDA h :
    AndThen(ReadVector("CTransaction", h.rest), LAMBDA t :
        StreamValue([header |-> h.val, vtx |-> t.val], t.rest)))

SerializeBlock(block) == block.header \o WriteVector("CTransaction", block.vtx)

\* A null pointer, and the pointers to a buffer of bytes and to an object.
nullptr == [null |-> TRUE]

Buffer(bytes) == [null |-> FALSE, bytes |-> bytes]

Handle(obj) == [null |-> FALSE, obj |-> obj]

\* aurk_transaction_create: null for a null buffer of non-zero length and when
\* deserializing throws; what the stream holds after the transaction is not
\* looked at.
aurk_transaction_create(raw_transaction, raw_transaction_len) ==
    IF raw_transaction.null /\ raw_transaction_len # 0 THEN nullptr
    ELSE IF raw_transaction.null THEN nullptr  \* an empty stream: throws
    ELSE IF UnserializeTransaction(SubSeq(raw_transaction.bytes, 1, raw_transaction_len)).ok
         THEN Handle(UnserializeTransaction(
                         SubSeq(raw_transaction.bytes, 1, raw_transaction_len)).val)
    ELSE nullptr

\* aurk_block_create: the same for a block.
aurk_block_create(raw_block, raw_block_length) ==
    IF raw_block.null /\ raw_block_length # 0 THEN nullptr
    ELSE IF raw_block.null THEN nullptr  \* an empty stream: throws
    ELSE IF UnserializeBlock(SubSeq(raw_block.bytes, 1, raw_block_length)).ok
         THEN Handle(UnserializeBlock(SubSeq(raw_block.bytes, 1, raw_block_length)).val)
    ELSE nullptr

\* WriterStream::write through the user's writer: the bytes reach the user
\* when the writer returns 0, else an exception ends the serialization.
WriterStream(bytes, writer_ok) ==
    IF writer_ok THEN [ret |-> 0, bytes |-> bytes] ELSE [ret |-> -1, bytes |-> <<>>]

\* aurk_transaction_to_bytes and aurk_block_to_bytes: 0, or -1 on an exception.
aurk_transaction_to_bytes(transaction, writer_ok) ==
    WriterStream(SerializeTransaction(transaction.obj, TRUE), writer_ok)

aurk_block_to_bytes(block, writer_ok) ==
    WriterStream(SerializeBlock(block.obj), writer_ok)

\* aurk_transaction_get_txid: the hash of the transaction without its
\* witness.  aurk_block_get_hash: the hash of the header.  The hash of a byte
\* string is taken to be free of collisions.
aurk_transaction_get_txid(transaction) ==
    <<"hash", SerializeTransaction(transaction.obj, FALSE)>>

aurk_block_get_hash(block) == <<"hash", block.obj.header>>

(***************************************************************************)
(* Interrupt and block import.                                             *)
(***************************************************************************)
\* aurk_context_interrupt: raises the context's signal; 0 when it was raised.
aurk_context_interrupt == [m_interrupt |-> TRUE, ret |-> 0]

\* The blocks that block files hold, and the lists of them a user imports.
ImportableBlocks == {"a1", "a2", "b1"}

RECURSIVE SeqsUpTo(_, _)
SeqsUpTo(S, n) ==
    IF n = 0 THEN {<<>>}
    ELSE SeqsUpTo(S, n - 1)
         \cup {Append(q, x) : q \in {r \in SeqsUpTo(S, n - 1) : Len(r) = n - 1}, x \in S}

\* node::ImportBlocks at a point between two blocks: it stops when the
\* interrupt is raised or nothing is left, else it loads the next block.
ImportCheckpoint(interrupt, files) ==
    IF interrupt THEN "interrupted"
    ELSE IF files = <<>> THEN "done"
    ELSE "load"

\* aurk_chainstate_manager_import_blocks: ImportBlocks is called for its
\* effect; -1 when an exception was thrown, else 0.
aurk_chainstate_manager_import_blocks(threw) == IF threw THEN -1 ELSE 0

(***************************************************************************)
(* Behaviours.                                                             *)
(***************************************************************************)
\* After aurk_chainstate_manager_create on a fresh data directory: genesis
\* is indexed and connected.
InitChainstate ==
    /\ mapBlockIndex = Genesis :>
           [CBlockIndex(NullHash, 0, GetBlockProof(Genesis), "FullyValid")
               EXCEPT !.haveData = TRUE, !.linked = TRUE]
    /\ vChain = <<Genesis>>
    /\ coins = ConnectBlock({}, Genesis, 0).view
    /\ blockUndo = [h \in {} |-> <<>>]
    /\ m_best_header = Genesis
    /\ nBlockSequenceId = 1
    /\ nArrivalSeq = 1
    /\ m_cbs \in {ValidationInterfaceCallbacks, {}}
    /\ notes = <<>>
    /\ checkedInvalid = {}
    /\ last = [op |-> "create", hash |-> Genesis, ret |-> 0, new_block |-> -1,
               mode |-> -1, result |-> -1]
    /\ ncalls = 0

\* A script verification request that has not been made yet.
VerifyRequest(tx, i, flags, has_status) ==
    [called |-> FALSE, tx_to |-> tx, precomputed_txdata |-> NullTxData,
     input_index |-> i, flags |-> flags, has_status |-> has_status,
     out |-> VerifyOutcome(FALSE, -1, StatusUnset, <<>>)]

\* No import has been asked for and the interrupt is not set.
ImportIdle == [pc |-> "idle", files |-> <<>>, ret |-> 0, cancelled |-> FALSE,
               connected |-> <<>>]

InitImport ==
    /\ m_interrupt = FALSE
    /\ import = ImportIdle

\* No ProcessBlock call is in progress and no callback is running.
InitSync ==
    sync = [pc |-> "idle", hash |-> NullHash, sigs |-> <<>>, k |-> 0,
            running |-> <<>>, returned |-> <<>>]

\* The threads of the user that call into one chainstate manager, and the
\* blocks they submit.
Threads == {"t1", "t2", "t3"}

ThreadBlocks == {"a1", "b1", "b2"}

\* The threads are named in the order in which they make their call.
ThreadsBefore(t) ==
    CASE t = "t1" -> {} [] t = "t2" -> {"t1"} [] t = "t3" -> {"t1", "t2"}

NoObs == [q |-> "none", arg |-> NullHash, value |-> NullHash, boundary |-> NullHash]

\* No thread has called yet and cs_main is free.
InitThreads ==
    /\ mutex = "none"
    /\ pending = St
    /\ thr = [t \in Threads |-> [pc |-> "idle", op |-> "none", hash |-> NullHash]]
    /\ hist = <<>>
    /\ obs = NoObs

\* The options are fresh (no worker threads) and no block is being checked.
InitCheck ==
    /\ worker_threads_num = 0
    /\ cq = [pc |-> "idle", inputs |-> <<>>, workers |-> 0, todo |-> {},
             running |-> {}, by |-> <<>>, all_ok |-> TRUE, verdict |-> TRUE]

\* A create call on raw bytes and what follows it; no call at first.
SerialRequest(pc, kind, raw, len) ==
    [pc |-> pc, kind |-> kind, raw |-> raw, len |-> len, obj |-> nullptr,
     ret |-> 0, written |-> <<>>, again |-> nullptr]

InitSerialization == ser = SerialRequest("idle", "transaction", nullptr, 0)

\* Nothing set, constructed, registered or iterated yet.
InitOptions ==
    opts = [wipe_data |-> FALSE, wipe_chainstate_db |-> FALSE,
            block_tree_db_in_memory |-> FALSE, coins_db_in_memory |-> FALSE,
            call |-> [fn |-> "none"]]

\* No Handle object exists and no C object was created.
InitHandles ==
    hs = [h |-> [x \in 1..MaxHandles |-> [live |-> FALSE, m_ptr |-> 0]],
          destroyed |-> [o \in 1..MaxObjects |-> 0],
          value |-> [o \in 1..MaxObjects |-> 0],
          created |-> 0]

\* No context options, no callback set and no context exists.
InitLifetime ==
    life = [co |-> [live |-> FALSE, m_notifications |-> 0, m_validation_interface |-> 0],
            cb |-> [k \in 1..MaxCallbackSets |->
                        [user_data |-> FALSE, user_data_destroy |-> FALSE,
                         use_count |-> 0, destroy_calls |-> 0]],
            ncb |-> 0,
            ctx |-> [c \in 1..MaxContexts |->
                        [use_count |-> 0, destroyed |-> FALSE,
                         m_notifications |-> 0, m_validation_interface |-> 0,
                         handles |-> 0, options |-> 0, chainmans |-> 0]],
            nctx |-> 0,
            late |-> FALSE]

\* The logger buffers, nothing was logged, no connection was created.
InitLogging ==
    logging = [m_buffering |-> TRUE, m_msgs_before_open |-> <<>>,
               m_print_callbacks |-> <<>>,
               conn |-> [c \in 1..MaxConnections |->
                            [state |-> "none", user_data |-> FALSE,
                             user_data_destroy |-> FALSE, destroy_calls |-> 0,
                             received |-> <<>>]],
               nconn |-> 0,
               msgs |-> <<>>]

\* No iteration has begun, no ProcessBlock call is running.
InitIterate ==
    iter = [pc |-> "idle", size |-> 0, idx |-> 0, entries |-> <<>>, tips |-> <<>>,
            disconnected |-> FALSE, writer |-> "idle", calls |-> 0]

InitOther == InitOptions /\ InitHandles /\ InitLifetime /\ InitLogging /\ InitIterate

Init ==
    /\ InitChainstate
    /\ txdata_handle = NullTxData
    /\ verify = VerifyRequest(<<>>, 0, 0, FALSE)
    /\ InitImport
    /\ InitSync
    /\ InitThreads
    /\ InitCheck
    /\ InitSerialization
    /\ InitOther

\* The blocks that the block_checked callbacks of ns report as not valid.
NotValid(ns) ==
    {ns[k].block : k \in {j \in 1..Len(ns) : /\ ns[j].cb = "block_checked"
                                             /\ ns[j].mode # aurk_ValidationMode_VALID}}

Commit(s) ==
    /\ mapBlockIndex' = s.idx
    /\ vChain' = s.chain
    /\ coins' = s.coins
    /\ blockUndo' = s.undo
    /\ m_best_header' = s.best
    /\ nBlockSequenceId' = s.seq
    /\ nArrivalSeq' = s.arr
    /\ notes' = Deliver(m_cbs, s.sigs)
    /\ ncalls' = ncalls + 1
    /\ UNCHANGED m_cbs

ProcessBlockCall ==
    \E h \in Hashes :
        /\ ncalls < MaxCalls
        /\ \E r \in {aurk_chainstate_manager_process_block(St, h)} :
               /\ Commit(r.s)
               /\ last' = [op |-> "process_block", hash |-> h, ret |-> r.ret,
                           new_block |-> r.new_block, mode |-> -1, result |-> -1]

ProcessBlockHeaderCall ==
    \E h \in Hashes :
        /\ ncalls < MaxCalls
        /\ \E r \in {aurk_chainstate_manager_process_block_header(St, h)} :
               /\ Commit(r.s)
               /\ last' = [op |-> "process_block_header", hash |-> h, ret |-> r.ret,
                           new_block |-> -1,
                           mode |-> aurk_block_validation_state_get_validation_mode(r.state),
                           result |-> aurk_block_validation_state_get_block_validation_result(r.state)]

ProcessBlock == ProcessBlockCall /\ UNCHANGED <<checkedInvalid, auxVars>>

ProcessBlockHeader == ProcessBlockHeaderCall /\ UNCHANGED <<checkedInvalid, auxVars>>

Next == ProcessBlock \/ ProcessBlockHeader

Spec == Init /\ [][Next]_vars

\* The same calls, observed by a user who keeps the blocks that a
\* block_checked callback reported as not valid.
ProcessBlockTracked ==
    /\ ncalls < MaxTrackedCalls
    /\ ProcessBlockCall
    /\ checkedInvalid' = checkedInvalid \cup NotValid(notes')
    /\ UNCHANGED auxVars

ProcessBlockHeaderTracked ==
    /\ ncalls < MaxTrackedCalls
    /\ ProcessBlockHeaderCall
    /\ checkedInvalid' = checkedInvalid \cup NotValid(notes')
    /\ UNCHANGED auxVars

NextTracked == ProcessBlockTracked \/ ProcessBlockHeaderTracked

SpecTracked == Init /\ [][NextTracked]_vars

\* Script verification by a user who holds a transaction and has chosen an
\* input index up to one past the last input, a flags word (every set of
\* interface flags, and one flag outside the interface) and whether to pass
\* a status pointer; the handle passed is the one held, or none.  A failed
\* assert ends the process.
RECURSIVE FlagSum(_)
FlagSum(S) == IF S = {} THEN 0
              ELSE LET f == CHOOSE x \in S : TRUE IN f + FlagSum(S \ {f})

VerifyFlags ==
    {FlagSum(S) : S \in SUBSET {aurk_ScriptVerificationFlags_P2SH,
                                aurk_ScriptVerificationFlags_DERSIG,
                                aurk_ScriptVerificationFlags_NULLDUMMY,
                                aurk_ScriptVerificationFlags_CHECKLOCKTIMEVERIFY,
                                aurk_ScriptVerificationFlags_CHECKSEQUENCEVERIFY,
                                aurk_ScriptVerificationFlags_WITNESS,
                                aurk_ScriptVerificationFlags_TAPROOT,
                                SCRIPT_VERIFY_CLEANSTACK}}

InitVerify ==
    /\ InitChainstate
    /\ m_cbs = {}
    /\ InitImport
    /\ InitSync
    /\ InitThreads
    /\ InitCheck
    /\ InitSerialization
    /\ InitOther
    /\ txdata_handle = NullTxData
    /\ \E tx \in ScriptTransactions, i \in 0..MaxInputs, flags \in VerifyFlags,
          has_status \in BOOLEAN :
           verify = VerifyRequest(tx, i, flags, has_status)

ScriptAlive == txdata_handle # AbortedTxData /\ ~verify.out.aborted

PrecomputedTransactionDataCreate ==
    \E tx \in ScriptTransactions, spent_outputs_null \in BOOLEAN,
       spent_outputs_len \in 0..MaxInputs :
        /\ ScriptAlive
        /\ txdata_handle' = aurk_precomputed_transaction_data_create(
                                tx, spent_outputs_null, spent_outputs_len)
        /\ UNCHANGED <<exceptScript, verify>>

ScriptPubkeyVerify ==
    \E pre \in {NullTxData, txdata_handle} :
        /\ ScriptAlive
        /\ verify' = [verify EXCEPT
                         !.called = TRUE,
                         !.precomputed_txdata = pre,
                         !.out = aurk_script_pubkey_verify(
                                     verify.tx_to, pre, verify.input_index,
                                     verify.flags, verify.has_status)]
        /\ UNCHANGED <<exceptScript, txdata_handle>>

\* An import on one thread, block by block, and aurk_context_interrupt on
\* another at any moment.
ImportStart ==
    \E files \in SeqsUpTo(ImportableBlocks, MaxImport), threw \in BOOLEAN :
        /\ import.pc = "idle"
        /\ import' = IF threw
                      THEN [ImportIdle EXCEPT
                               !.pc = "returned", !.files = files,
                               !.ret = aurk_chainstate_manager_import_blocks(TRUE),
                               !.connected = vChain]
                      ELSE [ImportIdle EXCEPT !.pc = "running", !.files = files]
        /\ UNCHANGED <<chainVars, exceptImport, m_interrupt>>

ImportStep ==
    /\ import.pc = "running"
    /\ \E at \in {ImportCheckpoint(m_interrupt, import.files)} :
           IF at = "load"
           THEN /\ \E r \in {ProcessNewBlock(St, Head(import.files))} : Commit(r.s)
                /\ import' = [import EXCEPT !.files = Tail(import.files)]
                /\ UNCHANGED <<last, exceptImport, m_interrupt>>
           ELSE /\ import' = [import EXCEPT
                                 !.pc = "returned",
                                 !.cancelled = (at = "interrupted"),
                                 !.connected = vChain,
                                 !.ret = aurk_chainstate_manager_import_blocks(FALSE)]
                /\ UNCHANGED <<chainVars, exceptImport, m_interrupt>>

ContextInterrupt ==
    /\ ~m_interrupt
    /\ m_interrupt' = aurk_context_interrupt.m_interrupt
    /\ UNCHANGED <<chainVars, exceptImport, import>>

NextImport == ImportStart \/ ImportStep \/ ContextInterrupt

SpecImport == Init /\ [][NextImport]_vars

\* One ProcessBlock call step by step: the engine raises its signals one
\* after the other, each signal starts the callback set for it, callbacks
\* return, and the call returns.
SyncEnter ==
    \E h \in Hashes :
        /\ ncalls < MaxSyncCalls
        /\ sync.pc = "idle"
        /\ sync' = [sync EXCEPT
                       !.pc = "engine", !.hash = h, !.k = 0, !.returned = <<>>,
                       !.sigs = aurk_chainstate_manager_process_block(St, h).s.sigs]
        /\ UNCHANGED <<chainVars, exceptSync>>

SyncRaise ==
    /\ sync.pc = "engine"
    /\ sync.k < Len(sync.sigs)
    /\ EngineMayProceed(sync.running)
    /\ sync' = [sync EXCEPT
                   !.k = sync.k + 1,
                   !.running = sync.running \o Deliver(m_cbs, <<sync.sigs[sync.k + 1]>>)]
    /\ UNCHANGED <<chainVars, exceptSync>>

SyncCallbackReturn ==
    /\ sync.running # <<>>
    /\ sync' = [sync EXCEPT !.running = Tail(sync.running),
                            !.returned = Append(sync.returned, Head(sync.running))]
    /\ UNCHANGED <<chainVars, exceptSync>>

SyncReturn ==
    /\ sync.pc = "engine"
    /\ sync.k = Len(sync.sigs)
    /\ EngineMayProceed(sync.running)
    /\ \E r \in {aurk_chainstate_manager_process_block(St, sync.hash)} :
           /\ Commit(r.s)
           /\ last' = [op |-> "process_block", hash |-> sync.hash, ret |-> r.ret,
                       new_block |-> r.new_block, mode |-> -1, result |-> -1]
    /\ sync' = [sync EXCEPT !.pc = "idle"]
    /\ UNCHANGED exceptSync

NextSync == SyncEnter \/ SyncRaise \/ SyncCallbackReturn \/ SyncReturn

SpecSync == Init /\ [][NextSync]_vars

\* Calls from several threads.  A call takes cs_main for the acceptance of
\* its header or block and again for every step that moves the tip; a
\* query takes it for its read.
ThreadCall(t) ==
    \E op \in {"process_block", "process_block_header"}, h \in ThreadBlocks :
        /\ thr[t].pc = "idle"
        /\ \A u \in ThreadsBefore(t) : thr[u].pc # "idle"
        /\ thr' = [thr EXCEPT ![t] = [pc |-> "accept", op |-> op, hash |-> h]]
        /\ UNCHANGED <<chainVars, exceptThreads, mutex, pending, hist>>
        /\ obs' = NoObs

AcquireAccept(t) ==
    /\ thr[t].pc = "accept"
    /\ mutex = "none"
    /\ mutex' = t
    /\ \E a \in {AcceptSection(thr[t].op, St, thr[t].hash)} :
           /\ pending' = a.s
           /\ thr' = [thr EXCEPT ![t].pc = IF a.activate THEN "accepted" ELSE "returning"]
    /\ hist' = Append(hist, [op |-> thr[t].op, hash |-> thr[t].hash])
    /\ UNCHANGED <<chainVars, exceptThreads>>
    /\ obs' = NoObs

AcquireActivate(t) ==
    /\ thr[t].pc = "activate"
    /\ mutex = "none"
    /\ \E most \in {FindMostWorkChain(mapBlockIndex)} :
           IF most = Tip(vChain)
           THEN /\ thr' = [thr EXCEPT ![t].pc = "done"]
                /\ UNCHANGED <<mutex, pending>>
           ELSE /\ mutex' = t
                /\ pending' = ActivateBestChainStep(St, most)
                /\ thr' = [thr EXCEPT ![t].pc = "activating"]
    /\ UNCHANGED <<chainVars, exceptThreads, hist>>
    /\ obs' = NoObs

Release(t) ==
    /\ mutex = t
    /\ mutex' = "none"
    /\ Commit(pending)
    /\ thr' = [thr EXCEPT ![t].pc = IF thr[t].pc = "returning" THEN "done"
                                    ELSE "activate"]
    /\ UNCHANGED <<last, exceptThreads, pending, hist>>
    /\ obs' = NoObs

ThreadQuery ==
    \E q \in {"height", "by_height", "contains", "by_hash", "best"} :
        \E arg \in CASE q = "by_height" -> 1..2
                     [] q = "contains" -> {thr[t].hash : t \in Threads} \cap DOMAIN mapBlockIndex
                     [] q = "by_hash" -> {thr[t].hash : t \in Threads} \ {NullHash}
                     [] OTHER -> {NullHash} :
            /\ QueryLock(mutex)
            /\ obs = NoObs
            /\ obs' = [q |-> q, arg |-> arg,
                       value |-> Query(q, arg, IF mutex = "none" THEN St
                                               ELSE Torn(St, pending)),
                       boundary |-> Query(q, arg, St)]
            /\ UNCHANGED <<chainVars, exceptThreads, mutex, pending, thr, hist>>

NextThreads ==
    \/ \E t \in Threads : ThreadCall(t)
    \/ \E t \in Threads : AcquireAccept(t)
    \/ \E t \in Threads : AcquireActivate(t)
    \/ \E t \in Threads : Release(t)
    \/ ThreadQuery

SpecThreads == Init /\ [][NextThreads]_vars

\* The script checks of one block: the inputs are queued, every checker
\* takes checks and finishes them, and the connecting thread reads the
\* verdict.
\* The values a user sets: small ones, the ones around the largest number of
\* threads, and the ends of int.
WorkerThreadRequests ==
    (-1..MaxWorkers)
    \cup {MAX_SCRIPTCHECK_THREADS, MAX_SCRIPTCHECK_THREADS + 1, INT_MAX, -INT_MAX - 1}

SetWorkerThreads ==
    \E n \in WorkerThreadRequests :
        /\ cq.pc = "idle"
        /\ worker_threads_num' =
               aurk_chainstate_manager_options_set_worker_threads_num(n)
        /\ UNCHANGED <<exceptCheck, cq>>

CheckStart ==
    \E inputs \in SeqsUpTo(BOOLEAN, MaxCheckInputs) :
        /\ cq.pc = "idle"
        /\ inputs # <<>>
        /\ cq' = [pc |-> "checking", inputs |-> inputs,
                  workers |-> WorkerThreads(worker_threads_num),
                  todo |-> 1..Len(inputs), running |-> {},
                  by |-> [i \in 1..Len(inputs) |-> -1],
                  all_ok |-> TRUE, verdict |-> TRUE]
        /\ UNCHANGED <<exceptCheck, worker_threads_num>>

\* Idle workers are alike: of them, the one with the lowest number takes
\* the check.
CheckTake ==
    \E w \in Checkers(cq.workers), i \in cq.todo :
        /\ cq.pc = "checking"
        /\ \A r \in cq.running : r[1] # w
        /\ \A v \in 1..(w - 1) : \E r \in cq.running : r[1] = v
        /\ cq.workers = 0 => \A j \in cq.todo : i <= j
        /\ cq' = [cq EXCEPT !.todo = cq.todo \ {i},
                            !.running = cq.running \cup {<<w, i>>},
                            !.by[i] = w]
        /\ UNCHANGED <<exceptCheck, worker_threads_num>>

CheckFinish ==
    \E r \in cq.running :
        /\ cq' = [cq EXCEPT !.running = cq.running \ {r},
                            !.all_ok = cq.all_ok /\ cq.inputs[r[2]]]
        /\ UNCHANGED <<exceptCheck, worker_threads_num>>

CheckComplete ==
    /\ cq.pc = "checking"
    /\ ChecksComplete(cq)
    /\ cq' = [cq EXCEPT !.pc = "done", !.verdict = cq.all_ok]
    /\ UNCHANGED <<exceptCheck, worker_threads_num>>

NextCheck ==
    SetWorkerThreads \/ CheckStart \/ CheckTake \/ CheckFinish \/ CheckComplete

SpecCheck == Init /\ [][NextCheck]_vars

\* The transactions and blocks whose encodings are handed to the create
\* calls: inputs without a script, with a script and with a witness.
Filled(n, b) == [k \in 1..n |-> b]

SerTxIns ==
    {[prevout |-> Filled(36, 7), scriptSig |-> sw[1], nSequence |-> Filled(4, 255),
      scriptWitness |-> sw[2]] :
         sw \in {<<<<>>, <<>>>>, <<<<81>>, <<>>>>, <<<<>>, <<<<1>>>>>>}}

SerTxOuts == {[nValue |-> Filled(8, 0), scriptPubKey |-> <<81>>]}

SerTransactions ==
    {[version |-> <<2, 0, 0, 0>>, vin |-> vin, vout |-> vout,
      nLockTime |-> Filled(4, 0)] :
         vin \in SeqsUpTo(SerTxIns, MaxSerInputs), vout \in SeqsUpTo(SerTxOuts, 1)}

SerBlocks ==
    {[header |-> Filled(80, 3), vtx |-> vtx] :
         vtx \in SeqsUpTo({tx \in SerTransactions : Len(tx.vin) = 1 /\ Len(tx.vout) = 1},
                          MaxSerBlockTxs)}

\* The extended format written with the given flags, whatever the inputs
\* carry, and the plain format with the number of inputs in three bytes.
SerializeWithFlags(tx, flags) ==
    tx.version \o <<0, flags>>
    \o WriteVector("CTxIn", tx.vin) \o WriteVector("CTxOut", tx.vout)
    \o (IF flags % 2 = 1
        THEN Concat([k \in 1..Len(tx.vin) |->
                         WriteVector("item", tx.vin[k].scriptWitness)])
        ELSE <<>>)
    \o tx.nLockTime

SerializeLongCount(tx) ==
    tx.version \o <<253>> \o WriteLE(Len(tx.vin), 2)
    \o Concat([k \in 1..Len(tx.vin) |-> WriteElement("CTxIn", tx.vin[k])])
    \o WriteVector("CTxOut", tx.vout) \o tx.nLockTime

\* What a caller hands over: an encoding, a part of one, one with bytes
\* after it, or one that is not well formed.
Prefixes(b) == {SubSeq(b, 1, n) : n \in 0..Len(b)}

Trailing == {Filled(n, 0) : n \in 1..MaxTrailing}

RawTransactions ==
    UNION {Prefixes(SerializeTransaction(tx, TRUE)) : tx \in SerTransactions}
    \cup {SerializeTransaction(tx, TRUE) \o t : tx \in SerTransactions, t \in Trailing}
    \cup {SerializeWithFlags(tx, flags) : tx \in SerTransactions, flags \in 1..3}
    \cup {SerializeLongCount(tx) : tx \in SerTransactions}

RawBlocks ==
    UNION {Prefixes(SerializeBlock(block)) : block \in SerBlocks}
    \cup {SerializeBlock(block) \o t : block \in SerBlocks, t \in Trailing}

InitSerial ==
    /\ InitChainstate
    /\ txdata_handle = NullTxData
    /\ verify = VerifyRequest(<<>>, 0, 0, FALSE)
    /\ InitImport
    /\ InitSync
    /\ InitThreads
    /\ InitCheck
    /\ InitOther
    /\ \/ \E raw \in RawTransactions :
              ser = SerialRequest("raw", "transaction", Buffer(raw), Len(raw))
       \/ \E raw \in RawBlocks :
              ser = SerialRequest("raw", "block", Buffer(raw), Len(raw))
       \/ \E kind \in {"transaction", "block"}, len \in 0..1 :
              ser = SerialRequest("raw", kind, nullptr, len)

\* aurk_transaction_create on the caller's bytes.
TransactionCreate ==
    /\ ser.pc = "raw"
    /\ ser.kind = "transaction"
    /\ ser' = [ser EXCEPT !.pc = "created",
                          !.obj = aurk_transaction_create(ser.raw, ser.len)]
    /\ UNCHANGED exceptSerial

\* aurk_transaction_to_bytes on the transaction, into a writer of the caller.
TransactionToBytes ==
    /\ ser.pc = "created"
    /\ ser.kind = "transaction"
    /\ ~ser.obj.null
    /\ \E writer_ok \in BOOLEAN :
           \E r \in {aurk_transaction_to_bytes(ser.obj, writer_ok)} :
               ser' = [ser EXCEPT !.pc = "written", !.ret = r.ret, !.written = r.bytes]
    /\ UNCHANGED exceptSerial

\* aurk_transaction_create on the bytes that were written.
TransactionCreateAgain ==
    /\ ser.pc = "written"
    /\ ser.kind = "transaction"
    /\ ser.ret = 0
    /\ ser' = [ser EXCEPT !.pc = "reparsed",
                          !.again = aurk_transaction_create(Buffer(ser.written), Len(ser.written))]
    /\ UNCHANGED exceptSerial

\* The same three calls for a block.
BlockCreate ==
    /\ ser.pc = "raw"
    /\ ser.kind = "block"
    /\ ser' = [ser EXCEPT !.pc = "created",
                          !.obj = aurk_block_create(ser.raw, ser.len)]
    /\ UNCHANGED exceptSerial

BlockToBytes ==
    /\ ser.pc = "created"
    /\ ser.kind = "block"
    /\ ~ser.obj.null
    /\ \E writer_ok \in BOOLEAN :
           \E r \in {aurk_block_to_bytes(ser.obj, writer_ok)} :
               ser' = [ser EXCEPT !.pc = "written", !.ret = r.ret, !.written = r.bytes]
    /\ UNCHANGED exceptSerial

BlockCreateAgain ==
    /\ ser.pc = "written"
    /\ ser.kind = "block"
    /\ ser.ret = 0
    /\ ser' = [ser EXCEPT !.pc = "reparsed",
                          !.again = aurk_block_create(Buffer(ser.written), Len(ser.written))]
    /\ UNCHANGED exceptSerial

NextSerial ==
    \/ TransactionCreate
    \/ TransactionToBytes
    \/ TransactionCreateAgain
    \/ BlockCreate
    \/ BlockToBytes
    \/ BlockCreateAgain

SpecSerial == InitSerial /\ [][NextSerial]_vars

NextVerify == PrecomputedTransactionDataCreate \/ ScriptPubkeyVerify

SpecVerify == InitVerify /\ [][NextVerify]_vars

(***************************************************************************)
(* Auxiliary notions used by the properties.                               *)
(***************************************************************************)
Height == aurk_chain_get_height(aurk_chainstate_manager_get_active_chain)

ActiveTip == aurk_chain_get_by_height(aurk_chainstate_manager_get_active_chain, Height)

\* The call made by this step.
Called(op, h) == last'.op = op /\ last'.hash = h /\ ncalls' = ncalls + 1

Invoked(ns, cb, h) == {k \in 1..Len(ns) : ns[k].cb = cb /\ ns[k].block = h}

InvokedAny(ns, cb) == {k \in 1..Len(ns) : ns[k].cb = cb}

RECURSIVE ViewOfPath(_, _)
\* The view obtained by connecting path[1..n] from an empty view, one block
\* after the other; ok tells whether every block connected.
ViewOfPath(path, n) ==
    IF n = 0 THEN [ok |-> TRUE, view |-> {}]
    ELSE LET before == ViewOfPath(path, n - 1)
             r      == ConnectBlock(before.view, path[n], n - 1)
         IN  [ok |-> before.ok /\ r.ok, view |-> r.view]

ViewOfChain(chain) == ViewOfPath(chain, Len(chain)).view

TxsOf(chain) ==
    UNION {Range(Blocks[chain[k]].vtx) : k \in 1..Len(chain)}

CreatedBy(chain) == UNION {Outputs(tx) : tx \in TxsOf(chain)}

SpentBy(chain) == UNION {Range(tx.vin) : tx \in TxsOf(chain)}

\* h with its header accepted would lie on a branch every block of which
\* connects.
ValidOnBranch(idx, h) ==
    /\ Blocks[h].powOK
    /\ Blocks[h].hashPrevBlock \in DOMAIN idx
    /\ LET path == Append(PathTo(idx, Blocks[h].hashPrevBlock), h)
       IN  ViewOfPath(path, Len(path)).ok

ChainWorkOf(idx, h) ==
    IF h \in DOMAIN idx THEN idx[h].nChainWork
    ELSE idx[Blocks[h].hashPrevBlock].nChainWork + GetBlockProof(h)

\* Entries below h whose body is stored.
StoredDescendants(idx, h) ==
    IF h \notin DOMAIN idx THEN {}
    ELSE {d \in Descendants(idx, h) \ {h} : idx[d].haveData}

HasData(idx, h) == h \in DOMAIN idx /\ idx[h].haveData

(***************************************************************************)
(* Properties.                                                             *)
(***************************************************************************)

\* C1 - Best-chain selection.  In every state between two calls, no branch
\* whose bodies are all stored and none of whose blocks is invalid (so no
\* fully validated branch) has more cumulative work than the active tip,
\* the tip is fully validated, and the active chain read through
\* aurk_chain_get_height / aurk_chain_get_by_height is exactly the path of
\* parent pointers from genesis to that tip.
C1_BestChainSelection ==
    /\ Height = mapBlockIndex[Tip(vChain)].nHeight
    /\ LET path == PathTo(mapBlockIndex, ActiveTip)
       IN  /\ Len(path) = Height + 1
           /\ \A k \in 0..Height :
                  aurk_chain_get_by_height(aurk_chainstate_manager_get_active_chain, k) = path[k + 1]
    /\ \A h \in Candidates(mapBlockIndex) :
           mapBlockIndex[h].nChainWork <= mapBlockIndex[ActiveTip].nChainWork
    /\ \A h \in DOMAIN mapBlockIndex :
           mapBlockIndex[h].nStatus = "FullyValid" =>
               mapBlockIndex[h].nChainWork <= mapBlockIndex[ActiveTip].nChainWork
    /\ mapBlockIndex[ActiveTip].nStatus = "FullyValid"

\* A reorganization happened: a fully validated block with less work than
\* the tip lies off the active chain.
C1_Witness ==
    /\ last.op = "process_block"
    /\ InvokedAny(notes, "block_disconnected") # {}
    /\ \E h \in DOMAIN mapBlockIndex :
           /\ mapBlockIndex[h].nStatus = "FullyValid"
           /\ aurk_chain_contains(vChain, mapBlockIndex, h) = 0
           /\ mapBlockIndex[h].nChainWork < mapBlockIndex[ActiveTip].nChainWork

\* The arriving block h is new, valid on its branch, and its branch has
\* exactly the cumulative work of the active tip.
ArrivesWithEqualWork(h) ==
    /\ Called("process_block", h)
    /\ ~HasData(mapBlockIndex, h)
    /\ ValidOnBranch(mapBlockIndex, h)
    /\ ChainWorkOf(mapBlockIndex, h) = mapBlockIndex[ActiveTip].nChainWork

TipKept ==
    /\ Tip(vChain') = Tip(vChain)
    /\ vChain' = vChain
    /\ InvokedAny(notes', "block_connected") = {}
    /\ InvokedAny(notes', "block_disconnected") = {}

\* Among the candidate tips with the work of the active tip, the active one
\* has the lowest sequence id.
FirstSeenActive ==
    \A h \in Candidates(mapBlockIndex) :
        mapBlockIndex[h].nChainWork = mapBlockIndex[ActiveTip].nChainWork =>
            mapBlockIndex[ActiveTip].nSequenceId <= mapBlockIndex[h].nSequenceId

\* Among the candidate tips with the work of the active tip, the body of the
\* active one arrived first.
FirstReceivedActive ==
    \A h \in Candidates(mapBlockIndex) :
        mapBlockIndex[h].nChainWork = mapBlockIndex[ActiveTip].nChainWork =>
            mapBlockIndex[ActiveTip].nArrival <= mapBlockIndex[h].nArrival

C3_UtxoConsistency ==
    /\ {c.outpoint : c \in coins} = CreatedBy(vChain) \ SpentBy(vChain)
    /\ Cardinality(coins) = Cardinality({c.outpoint : c \in coins})

\* After a reorganization onto a chain that spends.
C3_Witness ==
    /\ InvokedAny(notes, "block_disconnected") # {}
    /\ InvokedAny(notes, "block_connected") # {}
    /\ SpentBy(vChain) # {}
    /\ Height = 2

\* Entries this step marks invalid.
NewlyInvalid ==
    {h \in DOMAIN mapBlockIndex' :
        /\ mapBlockIndex'[h].nStatus = "Invalid"
        /\ (h \in DOMAIN mapBlockIndex => mapBlockIndex[h].nStatus # "Invalid")}

\* C4 - A failed reorganization is atomic.  When a block fails while being
\* connected, it and all its descendants are invalid afterwards, the tip is
\* the original tip or a valid tip with more work, it is the best valid
\* candidate, and (after every call) the view is exactly the view of the
\* active chain, never part of a block.
C4_FailedReorgAtomic ==
    [][/\ NewlyInvalid # {} =>
              /\ \A h \in NewlyInvalid : \A d \in Descendants(mapBlockIndex', h) :
                     mapBlockIndex'[d].nStatus = "Invalid"
              /\ \/ Tip(vChain') = Tip(vChain)
                 \/ mapBlockIndex'[Tip(vChain')].nChainWork > mapBlockIndex[Tip(vChain)].nChainWork
              /\ Tip(vChain') = FindMostWorkChain(mapBlockIndex')
              /\ \A k \in 1..Len(vChain') : mapBlockIndex'[vChain'[k]].nStatus = "FullyValid"
       /\ coins' = ViewOfChain(vChain')]_vars

\* A reorganization disconnected the tip, failed, and came back to it; a
\* descendant of the failed block was marked with it.
C4_Witness ==
    /\ last.op = "process_block"
    /\ InvokedAny(notes, "block_disconnected") # {}
    /\ \E k \in 1..Len(notes) :
           notes[k].cb = "block_checked" /\ notes[k].mode = aurk_ValidationMode_INVALID
    /\ mapBlockIndex[last.hash].nStatus = "Invalid"
    /\ \E d \in DOMAIN mapBlockIndex :
           d # last.hash /\ mapBlockIndex[d].pprev = last.hash
                         /\ mapBlockIndex[d].nStatus = "Invalid"
    /\ ActiveTip = "a1"

\* C5 - Connect / disconnect round trip.  The undo data of the tip, as
\* aurk_block_spent_outputs_read returns it, has one list per non-coinbase
\* transaction with one coin per input; disconnecting the tip with it gives
\* the view of the chain below the tip; and the view is the one obtained by
\* connecting the active chain block by block from its start.
C5_UndoRoundTrip ==
    /\ Height >= 1 =>
           LET h   == ActiveTip
               vtx == Blocks[h].vtx
               u   == aurk_block_spent_outputs_read(mapBlockIndex, blockUndo, h)
           IN  /\ u.ok
               /\ Len(u.vtxundo) = Len(vtx) - 1
               /\ \A i \in 1..Len(u.vtxundo) : Len(u.vtxundo[i]) = Len(vtx[i + 1].vin)
               /\ DisconnectBlock(coins, h, u.vtxundo)
                      = ViewOfChain(SubSeq(vChain, 1, Len(vChain) - 1))
    /\ coins = ViewOfChain(vChain)

\* The tip has a transaction spending an output of the same block, and its
\* undo data is there to read.
C5_Witness ==
    /\ ActiveTip = "b2"
    /\ aurk_block_spent_outputs_read(mapBlockIndex, blockUndo, "b2").ok
    /\ Len(aurk_block_spent_outputs_read(mapBlockIndex, blockUndo, "b2").vtxundo) = 2

\* B is a valid block on top of the active tip.
ValidOnTip(h) ==
    /\ Blocks[h].hashPrevBlock = Tip(vChain)
    /\ CheckBlock(h)
    /\ ConnectBlock(coins, h, Len(vChain)).ok

ChainExtendedBy(h) ==
    /\ Len(vChain') > Len(vChain)
    /\ SubSeq(vChain', 1, Len(vChain)) = vChain
    /\ vChain'[Len(vChain) + 1] = h

ConnectedOnce(h) ==
    "block_connected" \in m_cbs =>
        Cardinality(Invoked(notes', "block_connected", h)) = 1

C7_Idempotence ==
    [][\A h \in Hashes :
           Called("process_block", h) =>
               /\ h \in Range(vChain) =>
                      /\ last'.ret = 0
                      /\ last'.new_block = 0
                      /\ InvokedAny(notes', "block_connected") = {}
                      /\ UNCHANGED <<mapBlockIndex, vChain, coins>>
               /\ h \notin Range(vChain) /\ h \in Range(vChain') =>
                      /\ last'.ret = 0
                      /\ last'.new_block = 1]_vars

\* The second call for a connected block, other than genesis.
C7_Witness ==
    /\ last.op = "process_block" /\ last.ret = 0 /\ last.new_block = 0
    /\ last.hash # Genesis
    /\ last.hash \in Range(vChain)
    /\ notes = <<>>
    /\ "block_connected" \in m_cbs

\* C8 - A header that does not meet its target: ProcessBlockHeader returns
\* failure, the state has mode INVALID and result INVALID_HEADER, and the
\* block index is as before, with no entry for the header; no entry of the
\* index ever belongs to such a header.
C8_BadPowHeader ==
    [][/\ \A h \in Hashes :
              Called("process_block_header", h) /\ ~Blocks[h].powOK =>
                  /\ last'.ret = -1
                  /\ last'.mode = aurk_ValidationMode_INVALID
                  /\ last'.result = aurk_BlockValidationResult_INVALID_HEADER
                  /\ aurk_chainstate_manager_get_block_tree_entry_by_hash(mapBlockIndex', h) = NullHash
                  /\ mapBlockIndex' = mapBlockIndex
       /\ \A h \in DOMAIN mapBlockIndex' : Blocks[h].powOK]_vars

\* Such a header was submitted, on a known parent, after others were taken.
C8_Witness ==
    /\ last.op = "process_block_header" /\ last.hash = "p"
    /\ last.ret = -1
    /\ Cardinality(DOMAIN mapBlockIndex) >= 3

UnknownPrev(h) == Blocks[h].hashPrevBlock \notin DOMAIN mapBlockIndex

StatusMoves ==
    {<<"HeaderOnly", "HeadersValid">>, <<"HeaderOnly", "FullyValid">>,
     <<"HeadersValid", "FullyValid">>,
     <<"HeaderOnly", "Invalid">>, <<"HeadersValid", "Invalid">>}

\* C10 - The status of an entry is a monotone state machine: in a call it
\* stays, or moves forward along HeaderOnly, HeadersValid, FullyValid, or
\* moves to Invalid from HeaderOnly or HeadersValid; nothing leaves Invalid
\* or FullyValid, and no entry leaves the index.
C10_StatusMonotone ==
    [][/\ DOMAIN mapBlockIndex \subseteq DOMAIN mapBlockIndex'
       /\ \A h \in DOMAIN mapBlockIndex :
              \/ mapBlockIndex'[h].nStatus = mapBlockIndex[h].nStatus
              \/ <<mapBlockIndex[h].nStatus, mapBlockIndex'[h].nStatus>> \in StatusMoves
       /\ \A h \in DOMAIN mapBlockIndex' :
              mapBlockIndex'[h].nStatus \in {"HeaderOnly", "HeadersValid", "FullyValid", "Invalid"}]_vars

\* Entries in each of the three statuses the calls produce, one of them
\* invalid below a fully valid chain.
C10_Witness ==
    /\ \E h \in DOMAIN mapBlockIndex : mapBlockIndex[h].nStatus = "Invalid"
    /\ \E h \in DOMAIN mapBlockIndex : mapBlockIndex[h].nStatus = "HeadersValid"
    /\ \E h \in DOMAIN mapBlockIndex \ {Genesis} : mapBlockIndex[h].nStatus = "FullyValid"
    /\ Height >= 2

RECURSIVE ReplayNotes(_, _, _, _)
\* Following the block_connected and block_disconnected callbacks ns[k..]
\* from the chain `chain`: a disconnected block must be the tip at that
\* moment, a connected block a child of the tip at that moment.  ok tells
\* whether all of them were.
ReplayNotes(idx, chain, ns, k) ==
    IF k > Len(ns) THEN [ok |-> TRUE, chain |-> chain]
    ELSE IF ns[k].cb = "block_disconnected"
    THEN IF Len(chain) > 1 /\ Tip(chain) = ns[k].block
         THEN ReplayNotes(idx, SubSeq(chain, 1, Len(chain) - 1), ns, k + 1)
         ELSE [ok |-> FALSE, chain |-> chain]
    ELSE IF ns[k].cb = "block_connected"
    THEN IF ns[k].block \in DOMAIN idx /\ idx[ns[k].block].pprev = Tip(chain)
         THEN ReplayNotes(idx, Append(chain, ns[k].block), ns, k + 1)
         ELSE [ok |-> FALSE, chain |-> chain]
    ELSE ReplayNotes(idx, chain, ns, k + 1)

BothRegistered == {"block_connected", "block_disconnected"} \subseteq m_cbs

\* C11 - Reorganization notification order.  In every call, with both
\* callbacks registered: each block_disconnected is for the block that is
\* the tip at that moment (so the blocks of the old branch come tip first,
\* in strictly decreasing height, down to the child of the common
\* ancestor), each block_connected is for a child of the tip at that
\* moment (so the blocks of the new branch come in strictly increasing
\* height, none before its ancestors above the common ancestor), and the
\* callbacks lead from the old active chain to the new one.
C11_NotificationOrder ==
    [][BothRegistered =>
           /\ ReplayNotes(mapBlockIndex', vChain, notes', 1).ok
           /\ ReplayNotes(mapBlockIndex', vChain, notes', 1).chain = vChain']_vars

\* A reorganization over two blocks on either side was notified.
C11_Witness ==
    /\ Cardinality(InvokedAny(notes, "block_disconnected")) >= 2
    /\ Cardinality(InvokedAny(notes, "block_connected")) >= 2
    /\ Height = 2

\* In ns, every block_connected comes after a block_checked for the same
\* block.
CheckedBeforeConnected(ns) ==
    \A k \in 1..Len(ns) :
        ns[k].cb = "block_connected" =>
            \E j \in 1..(k - 1) : ns[j].cb = "block_checked" /\ ns[j].block = ns[k].block

\* In ns, every block_connected comes after a block_checked for the same
\* block that reports it valid.
CheckedValidBeforeConnected(ns) ==
    \A k \in 1..Len(ns) :
        ns[k].cb = "block_connected" =>
            \E j \in 1..(k - 1) : /\ ns[j].cb = "block_checked"
                                  /\ ns[j].block = ns[k].block
                                  /\ ns[j].mode = aurk_ValidationMode_VALID

ConnectedIn(ns) == {ns[k].block : k \in InvokedAny(ns, "block_connected")}

InterfaceFlags(flags) == ~NotAnd(aurk_ScriptVerificationFlags_ALL, flags)

WitnessWithoutP2SH(flags) ==
    /\ And(flags, aurk_ScriptVerificationFlags_WITNESS)
    /\ ~And(flags, aurk_ScriptVerificationFlags_P2SH)

\* C13: a script verification request whose flags (all of the interface)
\* have WITNESS set and P2SH not set returns 0, leaves
\* ERROR_INVALID_FLAGS_COMBINATION in the status it was given, and has
\* neither read the transaction, nor built precomputed data, nor run the
\* script interpreter.
C13_InvalidFlagsBeforeEvaluation ==
    (verify.called /\ InterfaceFlags(verify.flags) /\ WitnessWithoutP2SH(verify.flags))
        => /\ ~verify.out.aborted
           /\ verify.out.ret = 0
           /\ verify.out.effects = <<>>
           /\ verify.has_status =>
                  verify.out.status = aurk_ScriptVerifyStatus_ERROR_INVALID_FLAGS_COMBINATION

\* A request that is in order but for its flags (WITNESS and TAPROOT without
\* P2SH; spent outputs given, input in range, script valid) is rejected.
C13_Witness ==
    /\ verify.called
    /\ verify.flags = aurk_ScriptVerificationFlags_WITNESS
                      + aurk_ScriptVerificationFlags_TAPROOT
    /\ verify.tx_to = <<TRUE>> /\ verify.input_index = 0
    /\ verify.precomputed_txdata = PrecomputedInit(<<TRUE>>, <<"out">>)
    /\ verify.has_status
    /\ verify.out.ret = 0
    /\ verify.out.status = aurk_ScriptVerifyStatus_ERROR_INVALID_FLAGS_COMBINATION

\* The request passed no precomputed data, or data created without spent
\* outputs.
WithoutSpentOutputs(pre) == pre = NullTxData \/ pre.m_spent_outputs = <<>>

\* C14: a request for an input of the transaction, with TAPROOT set in a
\* valid combination of interface flags and with precomputed data that is
\* absent or was created with no spent outputs, returns 0, leaves
\* ERROR_SPENT_OUTPUTS_REQUIRED in the status it was given, and has not run
\* the script interpreter.
C14_SpentOutputsRequired ==
    (/\ verify.called
     /\ InterfaceFlags(verify.flags) /\ ~WitnessWithoutP2SH(verify.flags)
     /\ And(verify.flags, aurk_ScriptVerificationFlags_TAPROOT)
     /\ verify.input_index < Len(verify.tx_to)
     /\ WithoutSpentOutputs(verify.precomputed_txdata))
        => /\ ~verify.out.aborted
           /\ verify.out.ret = 0
           /\ \A k \in 1..Len(verify.out.effects) : verify.out.effects[k] # "VerifyScript"
           /\ verify.has_status =>
                  verify.out.status = aurk_ScriptVerifyStatus_ERROR_SPENT_OUTPUTS_REQUIRED

\* P2SH, WITNESS and TAPROOT with a handle created on an empty spent-outputs
\* list, for an input whose script would verify.
C14_Witness ==
    /\ verify.called
    /\ verify.flags = aurk_ScriptVerificationFlags_P2SH
                      + aurk_ScriptVerificationFlags_WITNESS
                      + aurk_ScriptVerificationFlags_TAPROOT
    /\ verify.tx_to = <<TRUE>> /\ verify.input_index = 0
    /\ verify.precomputed_txdata =
           aurk_precomputed_transaction_data_create(<<TRUE>>, FALSE, 0)
    /\ verify.has_status
    /\ verify.out.ret = 0
    /\ verify.out.status = aurk_ScriptVerifyStatus_ERROR_SPENT_OUTPUTS_REQUIRED

\* The call ran the script interpreter and the script did not verify.
EvaluatedAndFailed ==
    /\ \E k \in 1..Len(verify.out.effects) : verify.out.effects[k] = "VerifyScript"
    /\ ~VerifyScript(verify.tx_to, verify.input_index)

\* C15: a call that was given a status pointer and returns leaves exactly
\* one of OK, ERROR_INVALID_FLAGS_COMBINATION, ERROR_SPENT_OUTPUTS_REQUIRED
\* in it; result 1 comes with OK only, every other status with result 0,
\* and result 0 with OK exactly when the script was evaluated and failed.
C15_StatusPartition ==
    (verify.called /\ verify.has_status /\ ~verify.out.aborted)
        => /\ verify.out.status \in
                  {aurk_ScriptVerifyStatus_OK,
                   aurk_ScriptVerifyStatus_ERROR_INVALID_FLAGS_COMBINATION,
                   aurk_ScriptVerifyStatus_ERROR_SPENT_OUTPUTS_REQUIRED}
           /\ verify.out.ret \in {0, 1}
           /\ verify.out.ret = 1 => verify.out.status = aurk_ScriptVerifyStatus_OK
           /\ verify.out.status # aurk_ScriptVerifyStatus_OK => verify.out.ret = 0
           /\ (verify.out.ret = 0 /\ verify.out.status = aurk_ScriptVerifyStatus_OK)
                  <=> EvaluatedAndFailed

\* The second input of a transaction fails under a valid flag set.
C15_Witness ==
    /\ verify.called /\ verify.has_status
    /\ verify.tx_to = <<TRUE, FALSE>> /\ verify.input_index = 1
    /\ verify.flags = aurk_ScriptVerificationFlags_P2SH
                      + aurk_ScriptVerificationFlags_WITNESS
    /\ verify.out.ret = 0
    /\ verify.out.status = aurk_ScriptVerifyStatus_OK
    /\ EvaluatedAndFailed

\* C16: an import that was cancelled through the context interrupt returns
\* a status that is neither success (0) nor the failure status (-1), and
\* the blocks connected before the interrupt was seen are still connected.
C16_InterruptedStatus ==
    (import.pc = "returned" /\ import.cancelled)
        => /\ import.ret # 0
           /\ import.ret # aurk_chainstate_manager_import_blocks(TRUE)
           /\ import.connected = vChain

GenesisState ==
    [idx |-> Genesis :>
                [CBlockIndex(NullHash, 0, GetBlockProof(Genesis), "FullyValid")
                    EXCEPT !.haveData = TRUE, !.linked = TRUE],
     chain |-> <<Genesis>>, coins |-> ConnectBlock({}, Genesis, 0).view,
     undo |-> [h \in {} |-> <<>>], best |-> Genesis, seq |-> 1, arr |-> 1,
     sigs |-> <<>>]

\* One call made alone, and calls made one after the other.
SeqApply(s, call) ==
    IF call.op = "process_block"
    THEN [ProcessNewBlock(s, call.hash).s EXCEPT !.sigs = <<>>]
    ELSE [ProcessNewBlockHeaders(s, call.hash).s EXCEPT !.sigs = <<>>]

RECURSIVE SeqRun(_, _, _, _)
SeqRun(s, calls, order, k) ==
    IF k > Len(calls) THEN s
    ELSE SeqRun(SeqApply(s, calls[order[k]]), calls, order, k + 1)

Orders(n) == {f \in [1..n -> 1..n] : \A i, j \in 1..n : f[i] = f[j] => i = j}

Quiescent == \A t \in Threads : thr[t].pc = "done"

\* A block tree entry as the data model has it: parent, height, cumulative
\* work, validation status, and whether the body is stored.
EntryOf(idx) ==
    [h \in DOMAIN idx |-> <<idx[h].pprev, idx[h].nHeight, idx[h].nChainWork,
                            idx[h].nStatus, idx[h].haveData>>]

C19_DeterministicVerdict ==
    cq.pc = "done" => cq.verdict = SequentialVerdict(cq.inputs)

\* Two workers; the only failing input is the last one and a worker, not the
\* connecting thread, checked it.
C19_Witness ==
    /\ cq.pc = "done"
    /\ cq.workers = 2
    /\ cq.inputs = <<TRUE, TRUE, FALSE>>
    /\ cq.by[3] = 2 /\ cq.by[1] = 0
    /\ ~cq.verdict

\* The identifier the interface gives for a transaction or a block.
IdOf(kind, obj) ==
    IF kind = "transaction" THEN aurk_transaction_get_txid(obj)
    ELSE aurk_block_get_hash(obj)

\* C20: whenever a create call returned an object for a byte string, the
\* bytes that to_bytes writes for the object are exactly that byte string,
\* and creating an object from the written bytes gives one with the same
\* txid (block hash).
C20_RoundTrip ==
    /\ (ser.pc \in {"written", "reparsed"} /\ ser.ret = 0) => ser.written = ser.raw.bytes
    /\ ser.pc = "reparsed" =>
           /\ ~ser.again.null
           /\ IdOf(ser.kind, ser.again) = IdOf(ser.kind, ser.obj)


\* The entry reached from h by following the previous entry k times; NullHash
\* once the walk has left the tree.
RECURSIVE AncestorBy(_, _, _)
AncestorBy(idx, h, k) ==
    IF k = 0 \/ h \notin DOMAIN idx THEN h
    ELSE AncestorBy(idx, aurk_block_tree_entry_get_previous(idx, h), k - 1)

\* C23: every block tree entry other than genesis has a previous entry in
\* the tree, one lower and with strictly less cumulative work; the walk
\* along previous entries from any entry ends at genesis; and
\* aurk_block_tree_entry_get_previous returns null exactly for genesis.
C23_BlockTreeShape ==
    \A h \in DOMAIN mapBlockIndex :
        /\ (aurk_block_tree_entry_get_previous(mapBlockIndex, h) = NullHash) <=> (h = Genesis)
        /\ h # Genesis =>
               \E p \in DOMAIN mapBlockIndex :
                   /\ p = aurk_block_tree_entry_get_previous(mapBlockIndex, h)
                   /\ mapBlockIndex[p].nHeight = mapBlockIndex[h].nHeight - 1
                   /\ mapBlockIndex[p].nChainWork < mapBlockIndex[h].nChainWork
        /\ \E k \in 0..Cardinality(DOMAIN mapBlockIndex) :
               AncestorBy(mapBlockIndex, h, k) = Genesis

\* Two branches of two entries each are in the tree.
C23_Witness == {"a1", "a2", "b1", "b2"} \subseteq DOMAIN mapBlockIndex


\* C28: between two calls, for every h from 0 to Height the entry that
\* GetByHeight(h) returns has height h, is contained in the chain and, for
\* h > 0, has GetByHeight(h - 1) as its previous entry; GetByHeight returns
\* null (the wrapper throws) for every other h; CountEntries is Height + 1.
C28_ChainViewConsistent ==
    /\ \A h \in -2..(Height + 2) :
           IF 0 <= h /\ h <= Height
           THEN \E e \in DOMAIN mapBlockIndex :
                    /\ e = aurk_chain_get_by_height(vChain, h)
                    /\ e = ChainView_GetByHeight(vChain, h)
                    /\ mapBlockIndex[e].nHeight = h
                    /\ aurk_chain_contains(vChain, mapBlockIndex, e) = 1
                    /\ h > 0 => aurk_block_tree_entry_get_previous(mapBlockIndex, e)
                                    = aurk_chain_get_by_height(vChain, h - 1)
           ELSE /\ aurk_chain_get_by_height(vChain, h) = NullHash
                /\ ChainView_GetByHeight(vChain, h) = "throws"
    /\ ChainView_CountEntries(vChain) = Height + 1

\* The chain has three entries after a reorganization took the first
\* branch off it.
C28_Witness ==
    /\ Height = 2
    /\ \E h \in DOMAIN mapBlockIndex :
           /\ mapBlockIndex[h].nStatus = "FullyValid"
           /\ aurk_chain_contains(vChain, mapBlockIndex, h) = 0


\* C30: over the flag values of the interface, a script verification call
\* that was given a status leaves ERROR_INVALID_FLAGS_COMBINATION in it
\* exactly when WITNESS is set and P2SH is not: TAPROOT without WITNESS is
\* not refused as a combination, and WITNESS without P2SH is refused as one
\* whether or not spent outputs are missing for TAPROOT.
C30_ExactlyWitnessWithoutP2SH ==
    (verify.called /\ InterfaceFlags(verify.flags) /\ verify.has_status)
        => /\ (verify.out.status = aurk_ScriptVerifyStatus_ERROR_INVALID_FLAGS_COMBINATION)
                  <=> WitnessWithoutP2SH(verify.flags)
           /\ (/\ WitnessWithoutP2SH(verify.flags)
               /\ And(verify.flags, aurk_ScriptVerificationFlags_TAPROOT)
               /\ WithoutSpentOutputs(verify.precomputed_txdata))
                  => verify.out.status # aurk_ScriptVerifyStatus_ERROR_SPENT_OUTPUTS_REQUIRED

\* TAPROOT alone, without precomputed data: the call asks for the spent
\* outputs and does not refuse the flags.
C30_Witness ==
    /\ verify.called /\ verify.has_status
    /\ verify.flags = aurk_ScriptVerificationFlags_TAPROOT
    /\ verify.tx_to = <<TRUE>> /\ verify.input_index = 0
    /\ verify.precomputed_txdata = NullTxData
    /\ verify.out.status = aurk_ScriptVerifyStatus_ERROR_SPENT_OUTPUTS_REQUIRED


C26_Min(a, b) == IF a < b THEN a ELSE b

C26_Max(a, b) == IF a < b THEN b ELSE a

OptionRequests == {-1, 0, 1, 2}

\* The four option fields of a ChainstateManagerOptions.
OptionFields(o) ==
    [wipe_data |-> o.wipe_data, wipe_chainstate_db |-> o.wipe_chainstate_db,
     block_tree_db_in_memory |-> o.block_tree_db_in_memory,
     coins_db_in_memory |-> o.coins_db_in_memory]

\* As aurk_chainstate_manager_options_set_wipe_dbs, but rejecting only a
\* chainstate flag of 0.
aurk_chainstate_manager_options_set_wipe_dbs_rejects_zero(o, wipe_block_tree_db, wipe_chainstate_db) ==
    IF wipe_block_tree_db = 1 /\ wipe_chainstate_db = 0
    THEN [ret |-> -1, o |-> o]
    ELSE [ret |-> 0,
          o |-> [o EXCEPT !.wipe_data = (wipe_block_tree_db = 1),
                          !.wipe_chainstate_db = (wipe_chainstate_db = 1)]]

\* The return value and the options after the call.
aurk_chainstate_manager_options_set_wipe_dbs(o, wipe_block_tree_db, wipe_chainstate_db) ==
    IF wipe_block_tree_db = 1 /\ wipe_chainstate_db # 1
    THEN [ret |-> -1, o |-> o]
    ELSE [ret |-> 0,
          o |-> [o EXCEPT !.wipe_data = (wipe_block_tree_db = 1),
                          !.wipe_chainstate_db = (wipe_chainstate_db = 1)]]

aurk_chainstate_manager_options_update_block_tree_db_in_memory(o, block_tree_db_in_memory) ==
    [o EXCEPT !.block_tree_db_in_memory = (block_tree_db_in_memory = 1)]

aurk_chainstate_manager_options_update_chainstate_db_in_memory(o, chainstate_db_in_memory) ==
    [o EXCEPT !.coins_db_in_memory = (chainstate_db_in_memory = 1)]

\* ChainstateManagerOptions::SetWipeDbs of the wrapper: true when the C call
\* returned 0.
SetWipeDbs ==
    \E wipe_block_tree_db \in OptionRequests, wipe_chainstate_db \in OptionRequests :
        LET r == aurk_chainstate_manager_options_set_wipe_dbs(
                     opts, wipe_block_tree_db, wipe_chainstate_db)
        IN  /\ opts' = [r.o EXCEPT !.call =
                           [fn |-> "set_wipe_dbs",
                            wipe_block_tree_db |-> wipe_block_tree_db,
                            wipe_chainstate_db |-> wipe_chainstate_db,
                            ret |-> r.ret, ok |-> (r.ret = 0),
                            before |-> OptionFields(opts)]]
            /\ UNCHANGED <<hs, life, logging, iter, exceptOther>>

UpdateBlockTreeDbInMemory ==
    \E block_tree_db_in_memory \in OptionRequests :
        /\ opts' = [aurk_chainstate_manager_options_update_block_tree_db_in_memory(
                        opts, block_tree_db_in_memory)
                    EXCEPT !.call = [fn |-> "update_block_tree_db_in_memory",
                                     arg |-> block_tree_db_in_memory]]
        /\ UNCHANGED <<hs, life, logging, iter, exceptOther>>

UpdateChainstateDbInMemory ==
    \E chainstate_db_in_memory \in OptionRequests :
        /\ opts' = [aurk_chainstate_manager_options_update_chainstate_db_in_memory(
                        opts, chainstate_db_in_memory)
                    EXCEPT !.call = [fn |-> "update_chainstate_db_in_memory",
                                     arg |-> chainstate_db_in_memory]]
        /\ UNCHANGED <<hs, life, logging, iter, exceptOther>>

NextOptions == SetWipeDbs \/ UpdateBlockTreeDbInMemory \/ UpdateChainstateDbInMemory

SpecOptions == Init /\ [][NextOptions]_vars

\* C25: a set_wipe_dbs request with wipe_block_tree_db = 1 and
\* wipe_chainstate_db other than 1 returns non-zero and leaves both wipe
\* options as they were; every other request returns 0 and sets the block-tree
\* wipe option to (wipe_block_tree_db = 1) and the chainstate wipe option to
\* (wipe_chainstate_db = 1); so the options never hold the block-tree wipe set
\* with the chainstate wipe clear.
C25_SetWipeDbsValidated ==
    /\ opts.wipe_data => opts.wipe_chainstate_db
    /\ opts.call.fn = "set_wipe_dbs" =>
        LET c == opts.call
        IN  IF c.wipe_block_tree_db = 1 /\ c.wipe_chainstate_db # 1
            THEN /\ c.ret # 0
                 /\ ~c.ok
                 /\ OptionFields(opts) = c.before
            ELSE /\ c.ret = 0
                 /\ c.ok
                 /\ opts.wipe_data = (c.wipe_block_tree_db = 1)
                 /\ opts.wipe_chainstate_db = (c.wipe_chainstate_db = 1)
                 /\ opts.block_tree_db_in_memory = c.before.block_tree_db_in_memory
                 /\ opts.coins_db_in_memory = c.before.coins_db_in_memory

\* A rejected request made while both wipe options were set.
C25_Witness ==
    /\ opts.call.fn = "set_wipe_dbs"
    /\ opts.call.wipe_block_tree_db = 1
    /\ opts.call.wipe_chainstate_db = 2
    /\ opts.call.ret # 0
    /\ opts.wipe_data
    /\ opts.wipe_chainstate_db


(***************************************************************************)
(* The wrapper's Handle<CType, CopyFunc, DestroyFunc>.  Handle objects are *)
(* the slots 1..MaxHandles, C objects are numbered 1..MaxObjects in the    *)
(* order of their creation, the null pointer is 0.                         *)
(***************************************************************************)

\* DestroyFunc(ptr): delete of the object; nothing for a null pointer.  The
\* number of times an object was destroyed is counted up to two.
DestroyFunc(s, ptr) ==
    IF ptr = 0 THEN s
    ELSE [s EXCEPT !.destroyed[ptr] = IF @ = 0 THEN 1 ELSE 2]

\* A *_create call: a new object with a value of its own.
CreateFunc(s) ==
    [s EXCEPT !.created = @ + 1, !.value[s.created + 1] = s.created + 1]

\* CopyFunc(ptr): a new object holding a copy of *ptr.
CopyFunc(s, ptr) ==
    [s EXCEPT !.created = @ + 1, !.value[s.created + 1] = s.value[ptr]]

\* A pointer CopyFunc may read: not null, and the object behind it exists.
Readable(s, ptr) == ptr # 0 /\ s.destroyed[ptr] = 0

\* explicit Handle(CType* ptr), with the pointer a *_create call returned.
Handle_ctor(s, this) ==
    [CreateFunc(s) EXCEPT !.h[this] = [live |-> TRUE, m_ptr |-> s.created + 1]]

\* Handle(const Handle& other)
Handle_copy_ctor(s, this, other) ==
    [CopyFunc(s, s.h[other].m_ptr) EXCEPT !.h[this] = [live |-> TRUE, m_ptr |-> s.created + 1]]

\* operator=(const Handle& other): copy into a temporary, swap, and the
\* temporary's destructor destroys what this held.
Handle_copy_assign(s, this, other) ==
    IF this # other
    THEN LET temp == s.created + 1
             swapped == [CopyFunc(s, s.h[other].m_ptr) EXCEPT !.h[this].m_ptr = temp]
         IN  DestroyFunc(swapped, s.h[this].m_ptr)
    ELSE s

\* Handle(Handle&& other)
Handle_move_ctor(s, this, other) ==
    [s EXCEPT !.h[this] = [live |-> TRUE, m_ptr |-> s.h[other].m_ptr],
              !.h[other].m_ptr = 0]

\* operator=(Handle&& other): DestroyFunc(m_ptr), then
\* m_ptr = std::exchange(other.m_ptr, nullptr).
Handle_move_assign(s, this, other) ==
    LET destroyed == DestroyFunc(s, s.h[this].m_ptr)
        old == destroyed.h[other].m_ptr
        exchanged == [destroyed EXCEPT !.h[other].m_ptr = 0]
    IN  [exchanged EXCEPT !.h[this].m_ptr = old]

\* ~Handle()
Handle_dtor(s, this) ==
    [DestroyFunc(s, s.h[this].m_ptr) EXCEPT !.h[this] = [live |-> FALSE, m_ptr |-> 0]]

HandleIds == 1..MaxHandles

Construct ==
    \E this \in HandleIds :
        /\ ~hs.h[this].live
        /\ hs.created < MaxObjects
        /\ hs' = Handle_ctor(hs, this)
        /\ UNCHANGED <<opts, life, logging, iter, exceptOther>>

CopyConstruct ==
    \E this \in HandleIds, other \in HandleIds :
        /\ ~hs.h[this].live
        /\ hs.h[other].live
        /\ Readable(hs, hs.h[other].m_ptr)
        /\ hs.created < MaxObjects
        /\ hs' = Handle_copy_ctor(hs, this, other)
        /\ UNCHANGED <<opts, life, logging, iter, exceptOther>>

CopyAssign ==
    \E this \in HandleIds, other \in HandleIds :
        /\ hs.h[this].live
        /\ hs.h[other].live
        /\ this # other => Readable(hs, hs.h[other].m_ptr) /\ hs.created < MaxObjects
        /\ hs' = Handle_copy_assign(hs, this, other)
        /\ UNCHANGED <<opts, life, logging, iter, exceptOther>>

MoveConstruct ==
    \E this \in HandleIds, other \in HandleIds :
        /\ ~hs.h[this].live
        /\ hs.h[other].live
        /\ hs' = Handle_move_ctor(hs, this, other)
        /\ UNCHANGED <<opts, life, logging, iter, exceptOther>>

MoveAssign ==
    \E this \in HandleIds, other \in HandleIds :
        /\ hs.h[this].live
        /\ hs.h[other].live
        /\ hs' = Handle_move_assign(hs, this, other)
        /\ UNCHANGED <<opts, life, logging, iter, exceptOther>>

Destruct ==
    \E this \in HandleIds :
        /\ hs.h[this].live
        /\ hs' = Handle_dtor(hs, this)
        /\ UNCHANGED <<opts, life, logging, iter, exceptOther>>

NextHandles ==
    \/ Construct
    \/ CopyConstruct
    \/ CopyAssign
    \/ MoveConstruct
    \/ MoveAssign
    \/ Destruct

SpecHandles == Init /\ [][NextHandles]_vars

\* The live Handle objects whose m_ptr is the object o.
Holders(o) == {x \in HandleIds : hs.h[x].live /\ hs.h[x].m_ptr = o}

\* C21: after any sequence of constructions, copies, moves, assignments
\* (a handle assigned to itself included) and destructions of Handle objects,
\* every C object was passed to its destroy function at most once, exactly
\* once when no live Handle refers to it, and not at all while a live Handle
\* refers to it.
C21_DestroyedExactlyOnce ==
    \A o \in 1..hs.created :
        /\ hs.destroyed[o] <= 1
        /\ Holders(o) # {} => hs.destroyed[o] = 0
        /\ Holders(o) = {} => hs.destroyed[o] = 1


(***************************************************************************)
(* Lifetimes: context options, contexts, chainstate manager options and    *)
(* chainstate managers.  KernelNotifications and KernelValidationInterface *)
(* objects ("callback sets") are numbered 1..MaxCallbackSets, Context      *)
(* objects 1..MaxContexts, in the order of their creation; 0 is an empty   *)
(* shared_ptr.  use_count is the number of shared_ptr owners.              *)
(***************************************************************************)

\* ~KernelNotifications / ~KernelValidationInterface: user_data_destroy is
\* called when both the user data and the destroy function are set.
DestroyCallbacks(l, k) ==
    IF l.cb[k].user_data /\ l.cb[k].user_data_destroy
    THEN [l EXCEPT !.cb[k].destroy_calls = IF @ = 0 THEN 1 ELSE 2]
    ELSE l

\* A shared_ptr to the callback set k is copied.
AcquireCallbacks(l, k) ==
    IF k = 0 THEN l ELSE [l EXCEPT !.cb[k].use_count = @ + 1]

\* A shared_ptr to the callback set k is reset or destroyed: the last owner
\* runs the destructor.
ReleaseCallbacks(l, k) ==
    IF k = 0 THEN l
    ELSE LET released == [l EXCEPT !.cb[k].use_count = @ - 1]
         IN  IF released.cb[k].use_count = 0 THEN DestroyCallbacks(released, k)
             ELSE released

\* std::make_shared<KernelNotifications>(cbs), owned by its creator.
MakeCallbacks(l, user_data, user_data_destroy) ==
    [l EXCEPT !.ncb = @ + 1,
              !.cb[l.ncb + 1] = [user_data |-> user_data,
                                 user_data_destroy |-> user_data_destroy,
                                 use_count |-> 1, destroy_calls |-> 0]]

\* As aurk_context_options_set_notifications, but the callback set held
\* before is forgotten without being released.
aurk_context_options_set_notifications_forgets_old(l, user_data, user_data_destroy) ==
    [MakeCallbacks(l, user_data, user_data_destroy)
        EXCEPT !.co.m_notifications = l.ncb + 1]

\* The assignment to m_notifications releases the callback set held before.
aurk_context_options_set_notifications(l, user_data, user_data_destroy) ==
    ReleaseCallbacks(
        [MakeCallbacks(l, user_data, user_data_destroy)
            EXCEPT !.co.m_notifications = l.ncb + 1],
        l.co.m_notifications)

aurk_context_options_set_validation_interface(l, user_data, user_data_destroy) ==
    ReleaseCallbacks(
        [MakeCallbacks(l, user_data, user_data_destroy)
            EXCEPT !.co.m_validation_interface = l.ncb + 1],
        l.co.m_validation_interface)

NoContextOptions == [live |-> FALSE, m_notifications |-> 0, m_validation_interface |-> 0]

aurk_context_options_create(l) == [l EXCEPT !.co.live = TRUE]

\* delete options: both shared_ptr members are destroyed.
aurk_context_options_destroy(l) ==
    [ReleaseCallbacks(ReleaseCallbacks(l, l.co.m_validation_interface),
                      l.co.m_notifications)
        EXCEPT !.co = NoContextOptions]

\* Context::Context: the options' callback sets are shared, and a validation
\* interface is also registered with (owned by) the context's m_signals.
\* Without options (or without notifications in them) the context makes
\* notifications of its own that carry no user data: 0 here.
Context_ctor(l, with_options) ==
    LET n == IF with_options THEN l.co.m_notifications ELSE 0
        v == IF with_options THEN l.co.m_validation_interface ELSE 0
        shared == AcquireCallbacks(AcquireCallbacks(AcquireCallbacks(l, n), v), v)
    IN  [shared EXCEPT !.nctx = @ + 1,
                       !.ctx[l.nctx + 1] =
                           [use_count |-> 1, destroyed |-> FALSE,
                            m_notifications |-> n, m_validation_interface |-> v,
                            handles |-> 1, options |-> 0, chainmans |-> 0]]

\* Context::~Context: the validation interface is unregistered, then the
\* members are destroyed.
Context_dtor(l, c) ==
    LET v == l.ctx[c].m_validation_interface
        unregistered == ReleaseCallbacks(l, v)
        members == ReleaseCallbacks(ReleaseCallbacks(unregistered, v),
                                    l.ctx[c].m_notifications)
    IN  [members EXCEPT !.ctx[c].destroyed = TRUE]

\* A shared_ptr<const Context> is destroyed.
ReleaseContext(l, c) ==
    LET released == [l EXCEPT !.ctx[c].use_count = @ - 1]
    IN  IF released.ctx[c].use_count = 0 THEN Context_dtor(released, c)
        ELSE released

\* aurk_context_create: a context that fails its sanity checks is destroyed
\* again and null is returned.
aurk_context_create(l, with_options, sane) ==
    LET made == Context_ctor(l, with_options)
    IN  IF sane THEN made
        ELSE ReleaseContext([made EXCEPT !.ctx[l.nctx + 1].handles = 0], l.nctx + 1)

aurk_context_copy(l, c) ==
    [l EXCEPT !.ctx[c].use_count = @ + 1, !.ctx[c].handles = @ + 1]

aurk_context_destroy(l, c) ==
    ReleaseContext([l EXCEPT !.ctx[c].handles = @ - 1], c)

\* ChainstateManagerOptions::m_context is a copy of the handle's shared_ptr.
aurk_chainstate_manager_options_create(l, c) ==
    [l EXCEPT !.ctx[c].use_count = @ + 1, !.ctx[c].options = @ + 1]

aurk_chainstate_manager_options_destroy(l, c) ==
    ReleaseContext([l EXCEPT !.ctx[c].options = @ - 1], c)

\* As aurk_chainstate_manager_create, but the chainstate manager does not
\* share the ownership of the context.
aurk_chainstate_manager_create_borrows_context(l, c, loaded) ==
    IF loaded THEN [l EXCEPT !.ctx[c].chainmans = @ + 1] ELSE l

\* ChainMan::m_context is a copy of the options' shared_ptr; when the
\* chainstate cannot be created or loaded, null is returned.
aurk_chainstate_manager_create(l, c, loaded) ==
    IF loaded
    THEN [l EXCEPT !.ctx[c].use_count = @ + 1, !.ctx[c].chainmans = @ + 1]
    ELSE l

\* The chainstate manager calls a notification or validation interface
\* callback of its context: late when the context, or a callback set that
\* carries user data, was destroyed before.
InvokeCallbacks(l, c) ==
    LET gone(k) == k # 0 /\ l.cb[k].use_count = 0
    IN  [l EXCEPT !.late = @ \/ l.ctx[c].destroyed
                             \/ gone(l.ctx[c].m_notifications)
                             \/ gone(l.ctx[c].m_validation_interface)]

\* aurk_chainstate_manager_destroy: the chainstate is flushed, which may
\* notify, then ChainMan is deleted, m_context with it.
aurk_chainstate_manager_destroy(l, c, notifies) ==
    LET flushed == IF notifies THEN InvokeCallbacks(l, c) ELSE l
    IN  IF l.ctx[c].use_count > 0 /\ ~l.ctx[c].destroyed
        THEN ReleaseContext([flushed EXCEPT !.ctx[c].chainmans = @ - 1], c)
        ELSE [flushed EXCEPT !.ctx[c].chainmans = @ - 1]

ContextIds == 1..MaxContexts

ExceptLife == <<opts, hs, logging, iter, exceptOther>>

ContextOptionsCreate ==
    /\ ~life.co.live
    /\ life' = aurk_context_options_create(life)
    /\ UNCHANGED ExceptLife

ContextOptionsSetNotifications ==
    /\ life.co.live
    /\ life.ncb < MaxCallbackSets
    /\ \E user_data \in BOOLEAN, user_data_destroy \in BOOLEAN :
           life' = aurk_context_options_set_notifications(life, user_data, user_data_destroy)
    /\ UNCHANGED ExceptLife

ContextOptionsSetValidationInterface ==
    /\ life.co.live
    /\ life.ncb < MaxCallbackSets
    /\ \E user_data \in BOOLEAN, user_data_destroy \in BOOLEAN :
           life' = aurk_context_options_set_validation_interface(life, user_data, user_data_destroy)
    /\ UNCHANGED ExceptLife

ContextOptionsDestroy ==
    /\ life.co.live
    /\ life' = aurk_context_options_destroy(life)
    /\ UNCHANGED ExceptLife

ContextCreate ==
    /\ life.nctx < MaxContexts
    /\ \E with_options \in {FALSE, life.co.live}, sane \in BOOLEAN :
           life' = aurk_context_create(life, with_options, sane)
    /\ UNCHANGED ExceptLife

ContextCopy ==
    \E c \in ContextIds :
        /\ life.ctx[c].handles > 0
        /\ life.ctx[c].use_count < MaxRefs
        /\ life' = aurk_context_copy(life, c)
        /\ UNCHANGED ExceptLife

ContextDestroy ==
    \E c \in ContextIds :
        /\ life.ctx[c].handles > 0
        /\ life' = aurk_context_destroy(life, c)
        /\ UNCHANGED ExceptLife

ChainstateManagerOptionsCreate ==
    \E c \in ContextIds :
        /\ life.ctx[c].handles > 0
        /\ life.ctx[c].use_count < MaxRefs
        /\ life' = aurk_chainstate_manager_options_create(life, c)
        /\ UNCHANGED ExceptLife

ChainstateManagerOptionsDestroy ==
    \E c \in ContextIds :
        /\ life.ctx[c].options > 0
        /\ life' = aurk_chainstate_manager_options_destroy(life, c)
        /\ UNCHANGED ExceptLife

ChainstateManagerCreate ==
    \E c \in ContextIds, loaded \in BOOLEAN :
        /\ life.ctx[c].options > 0
        /\ life.ctx[c].use_count < MaxRefs
        /\ life' = aurk_chainstate_manager_create(life, c, loaded)
        /\ UNCHANGED ExceptLife

\* A call on the chainstate manager (process a block, import blocks) during
\* which the engine notifies.
ChainstateManagerNotifies ==
    \E c \in ContextIds :
        /\ life.ctx[c].chainmans > 0
        /\ life' = InvokeCallbacks(life, c)
        /\ UNCHANGED ExceptLife

ChainstateManagerDestroy ==
    \E c \in ContextIds, notifies \in BOOLEAN :
        /\ life.ctx[c].chainmans > 0
        /\ life' = aurk_chainstate_manager_destroy(life, c, notifies)
        /\ UNCHANGED ExceptLife

NextLifetime ==
    \/ ContextOptionsCreate
    \/ ContextOptionsSetNotifications
    \/ ContextOptionsSetValidationInterface
    \/ ContextOptionsDestroy
    \/ ContextCreate
    \/ ContextCopy
    \/ ContextDestroy
    \/ ChainstateManagerOptionsCreate
    \/ ChainstateManagerOptionsDestroy
    \/ ChainstateManagerCreate
    \/ ChainstateManagerNotifies
    \/ ChainstateManagerDestroy

SpecLifetime == Init /\ [][NextLifetime]_vars

Held(k) ==
    \/ life.co.live /\ k \in {life.co.m_notifications, life.co.m_validation_interface}
    \/ \E c \in 1..life.nctx :
           /\ ~life.ctx[c].destroyed
           /\ k \in {life.ctx[c].m_notifications, life.ctx[c].m_validation_interface}

\* C24: for a notification or validation interface callback set registered
\* with non-null user_data and user_data_destroy, user_data_destroy is called
\* at most once, and it has been called exactly when no owner is left: the
\* context options no longer hold the set (destroyed, or the set replaced)
\* and every context created with it, with all its copies, is destroyed.
C24_UserDataDestroyedOnce ==
    \A k \in 1..life.ncb :
        life.cb[k].user_data /\ life.cb[k].user_data_destroy =>
            /\ life.cb[k].destroy_calls <= 1
            /\ life.cb[k].destroy_calls = 1 <=> ~Held(k)

\* The user data of a notification callback set was destroyed after the
\* options replaced the set and both contexts created with it were destroyed.
C24_Witness ==
    \E k \in 1..life.ncb :
        /\ life.cb[k].user_data
        /\ life.cb[k].user_data_destroy
        /\ life.cb[k].destroy_calls = 1
        /\ life.nctx = 2
        /\ \A c \in 1..2 : life.ctx[c].m_notifications = k /\ life.ctx[c].destroyed
        /\ life.co.live
        /\ life.co.m_notifications \notin {0, k}


(***************************************************************************)
(* Logging.  The logger buffers while m_buffering is set and otherwise     *)
(* hands each message to every callback of m_print_callbacks.  Logging     *)
(* connections are numbered 1..MaxConnections in the order of the create   *)
(* calls, messages by their position in msgs; with each message the        *)
(* connections existing when it was logged and the number of create calls  *)
(* made before are kept.                                                   *)
(***************************************************************************)

\* The callback of the connection c is called with the message m.
LogCallback(g, c, m) == [g EXCEPT !.conn[c].received = Append(@, m)]

RECURSIVE LogCallbacks(_, _, _)
\* Every callback of cbs, in order, is called with the message m.
LogCallbacks(g, cbs, m) ==
    IF cbs = <<>> THEN g
    ELSE LogCallbacks(LogCallback(g, Head(cbs), m), Tail(cbs), m)

RECURSIVE Flush(_, _)
\* The buffered messages ms, in order, go to the callbacks.
Flush(g, ms) ==
    IF ms = <<>> THEN g
    ELSE Flush(LogCallbacks(g, g.m_print_callbacks, Head(ms)), Tail(ms))

\* Logger::LogPrintStr: a new message is buffered or handed to the callbacks.
LogPrintStr(g, existing) ==
    LET m == Len(g.msgs) + 1
        logged == [g EXCEPT !.msgs = Append(@, [existing |-> existing,
                                                before |-> g.nconn])]
    IN  IF g.m_buffering
        THEN [logged EXCEPT !.m_msgs_before_open = Append(@, m)]
        ELSE LogCallbacks(logged, g.m_print_callbacks, m)

\* Logger::StartLogging: when the logger can be started the buffered messages
\* are logged and buffering ends; otherwise nothing changes.
StartLogging(g, started) ==
    IF started
    THEN [Flush(g, g.m_msgs_before_open)
             EXCEPT !.m_buffering = FALSE, !.m_msgs_before_open = <<>>]
    ELSE g

\* Logger::DisconnectTestLogger: back to buffering, without callbacks.
DisconnectTestLogger(g) ==
    [g EXCEPT !.m_buffering = TRUE, !.m_print_callbacks = <<>>,
              !.m_msgs_before_open = <<>>]

PushBackCallback(g, c) == [g EXCEPT !.m_print_callbacks = Append(@, c)]

DeleteCallback(g, c) ==
    [g EXCEPT !.m_print_callbacks = SelectSeq(@, LAMBDA x : x # c)]

NumConnections(g) == Len(g.m_print_callbacks)

\* The connections that exist.
Connected(g) == {c \in 1..g.nconn : g.conn[c].state = "connected"}

\* LogDebug(BCLog::KERNEL, ...): logged when the category is enabled.
LogDebug(g, debug, existing) == IF debug THEN LogPrintStr(g, existing) ELSE g

\* user_data_destroy_callback(user_data), when both are given.
DeleteUserData(g, c) ==
    IF g.conn[c].user_data /\ g.conn[c].user_data_destroy
    THEN [g EXCEPT !.conn[c].destroy_calls = IF @ = 0 THEN 1 ELSE 2]
    ELSE g

\* LoggingConnection::LoggingConnection; a connection whose constructor
\* throws is "failed".
LoggingConnection_ctor(g, user_data, user_data_destroy, started, debug) ==
    LET c == g.nconn + 1
        made == [g EXCEPT !.nconn = c,
                          !.conn[c] = [state |-> "connected", user_data |-> user_data,
                                       user_data_destroy |-> user_data_destroy,
                                       destroy_calls |-> 0, received |-> <<>>]]
        pushed == PushBackCallback(made, c)
    IN  IF NumConnections(pushed) = 1 /\ ~started
        THEN LET failed == [StartLogging(pushed, FALSE) EXCEPT !.conn[c].state = "failed"]
                 logged == LogPrintStr(failed, Connected(failed))
             IN  DeleteUserData(DeleteCallback(logged, c), c)
        ELSE LET running == IF NumConnections(pushed) = 1
                            THEN StartLogging(pushed, TRUE) ELSE pushed
             IN  LogDebug(running, debug, Connected(running))

\* As LoggingConnection_dtor, but the last connection is removed like any
\* other.
LoggingConnection_dtor_keeps_logging(g, c, debug) ==
    LET logged == LogDebug(g, debug, Connected(g))
        removed == DeleteCallback(logged, c)
    IN  [DeleteUserData(removed, c) EXCEPT !.conn[c].state = "destroyed"]

\* LoggingConnection::~LoggingConnection
LoggingConnection_dtor(g, c, debug) ==
    LET logged == LogDebug(g, debug, Connected(g))
        removed == IF NumConnections(logged) = 1 THEN DisconnectTestLogger(logged)
                   ELSE DeleteCallback(logged, c)
    IN  [DeleteUserData(removed, c) EXCEPT !.conn[c].state = "destroyed"]

ExceptLogging == <<opts, hs, life, iter, exceptOther>>

\* aurk_logging_connection_create: null when the constructor throws.
LoggingConnectionCreate ==
    \E user_data \in BOOLEAN, user_data_destroy \in BOOLEAN,
       started \in BOOLEAN, debug \in BOOLEAN :
        /\ logging.nconn < MaxConnections
        /\ Len(logging.msgs) < MaxMessages
        /\ logging' = LoggingConnection_ctor(logging, user_data, user_data_destroy,
                                             started, debug)
        /\ UNCHANGED ExceptLogging

\* aurk_logging_connection_destroy
LoggingConnectionDestroy ==
    \E c \in Connected(logging), debug \in BOOLEAN :
        /\ debug => Len(logging.msgs) < MaxMessages
        /\ logging' = LoggingConnection_dtor(logging, c, debug)
        /\ UNCHANGED ExceptLogging

\* The library logs a message.
LogMessage ==
    /\ Len(logging.msgs) < MaxMessages
    /\ logging' = LogPrintStr(logging, Connected(logging))
    /\ UNCHANGED ExceptLogging

NextLogging == LoggingConnectionCreate \/ LoggingConnectionDestroy \/ LogMessage

SpecLogging == Init /\ [][NextLogging]_vars

\* The connections created after the message m was logged.
CreatedAfter(m) ==
    {c \in (logging.msgs[m].before + 1)..logging.nconn : logging.conn[c].state # "failed"}

FirstCreatedAfter(m) == CHOOSE c \in CreatedAfter(m) : \A d \in CreatedAfter(m) : c <= d

Received(c) == {logging.conn[c].received[i] : i \in 1..Len(logging.conn[c].received)}

IterateBlocks == {"a1", "a2", "b1", "b2", "x1"}

ExceptIterate ==
    <<checkedInvalid, scriptVars, importVars, syncVars, threadVars, checkVars,
      serialVars, opts, hs, life, logging>>

\* The chain old is the beginning of the chain new: no block was
\* disconnected.
Extends(new, old) == Len(old) <= Len(new) /\ SubSeq(new, 1, Len(old)) = old

\* Range::begin() and Range::end(): the size is read once.
EntriesBegin ==
    /\ iter.pc = "idle"
    /\ iter' = [iter EXCEPT !.pc = "iterating",
                            !.size = ChainView_CountEntries(vChain),
                            !.idx = 0]
    /\ UNCHANGED <<chainVars, ExceptIterate>>

\* Iterator::operator* and operator++: GetByHeight(idx), which may throw.
EntriesNext ==
    /\ iter.pc = "iterating"
    /\ \E entry \in {ChainView_GetByHeight(vChain, iter.idx)} :
           iter' = IF entry = "throws" THEN [iter EXCEPT !.pc = "thrown"]
                   ELSE [iter EXCEPT !.entries = Append(@, entry),
                                     !.tips = Append(@, Tip(vChain)),
                                     !.idx = @ + 1,
                                     !.pc = IF iter.idx + 1 = iter.size THEN "done"
                                            ELSE "iterating"]
    /\ UNCHANGED <<chainVars, ExceptIterate>>

\* The other thread calls ProcessBlock: the first locked section checks and
\* stores the block.
WriterAccept ==
    \E h \in IterateBlocks :
        /\ iter.writer = "idle"
        /\ iter.calls < MaxIterateCalls
        /\ \E a \in {AcceptSection("process_block", St, h)} :
               /\ Commit(a.s)
               /\ iter' = [iter EXCEPT !.writer = IF a.activate THEN "activate" ELSE "idle",
                                       !.calls = @ + 1]
        /\ UNCHANGED <<last, ExceptIterate>>

\* A further locked section of the call: one step towards the best chain,
\* or the return when the tip is the best chain.
WriterActivate ==
    /\ iter.writer = "activate"
    /\ \E most \in {FindMostWorkChain(mapBlockIndex)} :
           IF most = Tip(vChain)
           THEN /\ iter' = [iter EXCEPT !.writer = "idle"]
                /\ UNCHANGED chainVars
           ELSE \E s \in {ActivateBestChainStep(St, most)} :
                    /\ Commit(s)
                    /\ iter' = [iter EXCEPT !.disconnected =
                                    @ \/ (iter.pc = "iterating" /\ ~Extends(s.chain, vChain))]
                    /\ UNCHANGED last
    /\ UNCHANGED ExceptIterate

NextIterate == EntriesBegin \/ EntriesNext \/ WriterAccept \/ WriterActivate

SpecIterate == Init /\ [][NextIterate]_vars

\* Each entry obtained is the previous entry of the next.
OneChain(entries) ==
    \A i \in 2..Len(entries) :
        aurk_block_tree_entry_get_previous(mapBlockIndex, entries[i]) = entries[i - 1]

\* C29 as stated: while another thread runs ProcessBlock, GetByHeight never
\* throws for an index below the count that was read, and the entries
\* obtained all lie on one chain, each the parent of the next.
C29_IterationOnOneChain ==
    /\ iter.pc # "thrown"
    /\ OneChain(iter.entries)

\* C29, amended: the entry obtained for an index is the entry at that height
\* of the chain that is active at the time of that GetByHeight call;
\* GetByHeight throws for an index below the count read only after a block
\* was disconnected during the iteration; and when no block was disconnected
\* during the iteration, the entries obtained lie on one chain, each the
\* parent of the next, and the iteration obtains as many as the count read.
C29_EntryOfChainAtCall ==
    /\ \A i \in 1..Len(iter.entries) :
           /\ iter.entries[i] \in DOMAIN mapBlockIndex
           /\ mapBlockIndex[iter.entries[i]].nHeight = i - 1
           /\ mapBlockIndex[iter.tips[i]].nHeight >= i - 1
           /\ iter.entries[i] =
                  AncestorBy(mapBlockIndex, iter.tips[i],
                             mapBlockIndex[iter.tips[i]].nHeight - (i - 1))
    /\ iter.pc = "thrown" => iter.disconnected
    /\ ~iter.disconnected =>
           /\ OneChain(iter.entries)
           /\ iter.pc = "done" => Len(iter.entries) = iter.size

\* An iteration that ended without throwing obtained entries of two
\* different chains.
C29_Witness ==
    /\ iter.pc = "done"
    /\ iter.disconnected
    /\ ~OneChain(iter.entries)

====
